---- MODULE Spec2Model ----
(***************************************************************************)
(* A model of the bi-model-intent repository:                              *)
(*   - the LLM batch processor (src/src/process_training_data.py):         *)
(*     TrainingDataProcessor.process_question and process_training_data,   *)
(*     as a state machine with one action per step of the two loops;       *)
(*   - the schema normalizer (src/convert_to_bi_training_data.py):         *)
(*     convert_output_to_bi, over a small heap so that the sharing made by *)
(*     dict.copy() is part of the model;                                   *)
(*   - the vocabulary mapper and the corpus converter (same file):         *)
(*     convert_question_to_bi over texts kept as sequences of characters,  *)
(*     and main's loop over the corpus;                                    *)
(*   - the quality analyzer (src/analyze_bi_training_data.py):             *)
(*     analyze_bi_training_data and the score of print_analysis_report;    *)
(*   - the prompt assembler (build_prompt of process_training_data.py and  *)
(*     run_llm.py).                                                        *)
(* Time is counted in ticks of half a time unit, so that the 0.5 delay of  *)
(* the batch loop and the 2^attempt backoff are both integers.             *)
(***************************************************************************)
EXTENDS Integers, Sequences, FiniteSets, TLC

VARIABLES
    \* ---- LLM batch processor ----
    data,            \* the corpus in input_file: a sequence of examples
    processed_data,  \* self.processed_data
    tempFiles,       \* intermediate artifacts: <<start, end>> -> contents
    finalFile,       \* output_file: <<>> (not written) or <<contents>>
    pc,              \* position of the processor
    start_index, end_index, batch_size,   \* arguments of process_training_data
    i, j,            \* batch offset, index inside the batch
    batch_results,   \* batch_results of the current batch
    base,            \* len(self.processed_data) when the invocation started
    propagated,      \* positions (1-based, in data_to_process) whose question raised
    invocations,     \* invocations of process_training_data so far
    caller,          \* who called process_question: "direct" or "batch"
    question, max_retries, attempt,       \* process_question's arguments and loop variable
    content,         \* response.choices[0].message.content of the last call
    calls,           \* completion calls made by this process_question invocation
    lastOutcome,     \* outcome of the latest answered call: "none", "ok", "parse", "transport"
    pq_exit,         \* how process_question ended
    pq_result,       \* what process_question returned
    sinceCall,       \* ticks slept since the latest completion call was issued (-1: none yet)
    lastGap,         \* sinceCall as it was when the latest call was issued
    budget,          \* responses other than the plain annotation the collaborator may still give
    \* ---- schema normalizer ----
    npc,             \* position of the normaliser's caller
    heap,            \* address -> object
    inputBefore,     \* value of the caller's record before the first call
    resultOnce,      \* value returned by the first call, as it was on return
    returned,        \* address of the record returned by the latest call
    \* ---- vocabulary mapper ----
    mpc,             \* position of the mapper's caller
    raw_question,    \* question, as passed to convert_question_to_bi
    converted_question,  \* converted_question, after the loop over the table
    bi_question,     \* what convert_question_to_bi returned
    \* ---- corpus converter ----
    cpc,             \* position of the converter's main
    training_data,   \* kaggle_spider_training_data.json, as loaded
    bi_training_data,    \* bi_training_data, the list being built
    output_file,     \* bi_training_data.json: <<>> (not opened) or <<contents>>
    cerror,          \* the exception that ended main, or None
    \* ---- quality analyzer ----
    apc,             \* position of the analyzer's main
    bi_data,         \* bi_training_data.json, as loaded by the analyzer
    analysis,        \* the analysis dict, as far as it is built
    aerror,          \* the exception that ended the analyzer, or None
    score,           \* score of print_analysis_report (-1: not computed)
    analysis_file,   \* bi_training_data_analysis.json: <<>> or <<contents>>
    \* ---- prompt assembler ----
    ppc,             \* position of the assembler's caller
    template_parts,  \* the pieces prompt_template is made of
    prompt_template, \* self.prompt_template
    context,         \* self.context
    prompt_question, \* question, as passed to build_prompt
    prompt,          \* what build_prompt returned
    perror           \* the exception build_prompt raised, or None

procVars == <<data, processed_data, tempFiles, finalFile, pc, start_index, end_index,
              batch_size, i, j, batch_results, base, propagated, invocations, caller,
              question, max_retries, attempt, content, calls, lastOutcome, pq_exit,
              pq_result, sinceCall, lastGap, budget>>
normVars == <<npc, heap, inputBefore, resultOnce, returned>>
mapVars == <<mpc, raw_question, converted_question, bi_question>>
convVars == <<cpc, training_data, bi_training_data, output_file, cerror>>
anaVars == <<apc, bi_data, analysis, aerror, score, analysis_file>>
promptVars == <<ppc, template_parts, prompt_template, context, prompt_question, prompt, perror>>
toolVars == <<mapVars, convVars, anaVars, promptVars>>
vars == <<procVars, normVars, toolVars>>

----------------------------------------------------------------------------
(* Bounds of the model *)

\* corpora of 1..SmallLen examples are run against a misbehaving collaborator
SmallLen == 2
\* a long corpus, run against a well-behaved collaborator, for the checkpoint arithmetic
LargeLen == 60
\* retry bounds 0..MaxR for a direct call of process_question
MaxR == 4
\* responses other than the plain annotation in one behaviour
MaxDeviations == 4
\* invocations of process_training_data on one processor
MaxInvocations == 1
\* invocations of process_training_data on one processor that is used again
MaxReuse == 2

\* discovery steps in a record handed to the normaliser
MaxSteps == 2
\* measures, dimensions and unmatched intents in a record handed to the normaliser
MaxEntries == 2

\* words in a question handed to the vocabulary mapper
MaxWords == 2
\* examples in a corpus handed to the corpus converter
MaxCorpus == 5
\* examples in a corpus handed to the quality analyzer
MaxExamples == 2
\* pieces in a prompt template
MaxPieces == 2

(* Program constants *)

\* max_retries: int = 3
DefaultMaxRetries == 3
\* if (i + batch_size) % 50 == 0
CheckpointPeriod == 50
\* ticks in one time unit: time.sleep(0.5) is one tick
TicksPerUnit == 2
\* time.sleep(0.5), in ticks
InterCallDelay == 1
\* end_index: int = None
NoEnd == -1

----------------------------------------------------------------------------
(* Values *)

\* Python's None, as a return value
None == [none |-> TRUE]

\* example number k of the corpus; its question is k, its annotation the corpus's own
Example(k) ==
    [input |-> k,
     output |-> [intent |-> "corpus_label", discovery_results |-> <<>>]]

Corpus(n) == [k \in 1..n |-> Example(k)]

\* the texts the collaborator may answer with
PlainAnnotation == "{\"intent\": \"intents_discovery\", \"discovery_results\": []}"
IntentOnly == "{\"intent\": \"intents_discovery\"}"
OtherObject == "{\"answer\": \"42\"}"
NotJson == "Sure! Here is the JSON you asked for"
Contents == {PlainAnnotation, IntentOnly, OtherObject, NotJson}

\* json.loads raising json.JSONDecodeError
JSONDecodeError == [error |-> "JSONDecodeError"]

\* json.loads: what the text decodes to
JsonLoads(c) ==
    CASE c = PlainAnnotation ->
            [intent |-> "intents_discovery", discovery_results |-> <<>>]
      [] c = IntentOnly -> [intent |-> "intents_discovery"]
      [] c = OtherObject -> [answer |-> "42"]
      [] OTHER -> JSONDecodeError

\* the text is syntactically valid JSON
IsJson(c) == JsonLoads(c) # JSONDecodeError

\* AnnotationRecord's shape: an object with both fields
HasShape(v) == {"intent", "discovery_results"} \subseteq DOMAIN v

\* a parse that also rejects a decoded value without AnnotationRecord's shape
IsParseFailure_ShapeChecked(c) == ~IsJson(c) \/ ~HasShape(JsonLoads(c))

\* the except json.JSONDecodeError branch is taken
IsParseFailure(c) == ~IsJson(c)

\* the basic structure with its unmatched_intents field forgotten
FallbackSkeleton_NoUnmatched(q) ==
    [input |-> q,
     output |->
        [intent |-> "intents_discovery",
         discovery_results |->
            << [step_id |-> "step_1", sub_question |-> q,
                measures |-> <<>>, dimensions |-> <<>>,
                timegrain |-> "None", timeframe |-> "None", pattern |-> "None",
                segments |-> <<>>, breakdowns |-> <<>>] >>]]

\* the basic structure returned when the last attempt failed to parse
FallbackSkeleton(q) ==
    [input |-> q,
     output |->
        [intent |-> "intents_discovery",
         discovery_results |->
            << [step_id |-> "step_1", sub_question |-> q,
                measures |-> <<>>, dimensions |-> <<>>,
                timegrain |-> "None", timeframe |-> "None", pattern |-> "None",
                segments |-> <<>>, breakdowns |-> <<>>,
                unmatched_intents |-> <<>>] >>]]

\* 2 ** attempt
RECURSIVE Pow2(_)
Pow2(a) == IF a = 0 THEN 1 ELSE 2 * Pow2(a - 1)

\* time.sleep(2 * attempt), in ticks
Backoff_Linear(a) == TicksPerUnit * 2 * a

\* time.sleep(2 ** attempt), in ticks
Backoff(a) == TicksPerUnit * Pow2(a)

\* time.sleep(d): d more ticks since the latest call, if there was one
Sleep(d) == IF sinceCall < 0 THEN sinceCall ELSE sinceCall + d

\* attempt == max_retries - 1
LastAttempt == attempt = max_retries - 1

\* data[start_index:end_index]
DataToProcess ==
    IF start_index + 1 > end_index THEN <<>>
    ELSE SubSeq(data, start_index + 1, end_index)

Min(a, b) == IF a <= b THEN a ELSE b

\* data_to_process[i:i + batch_size]
Batch ==
    IF i + 1 > Len(DataToProcess) THEN <<>>
    ELSE SubSeq(DataToProcess, i + 1, Min(i + batch_size, Len(DataToProcess)))

\* the batch sizes the model draws from (10 is the default)
BatchSizes == {1, 2, 10, 20}

\* the <<start_index, end_index>> the model draws from, for a corpus of n examples
Ranges(n) ==
    IF n <= SmallLen
    THEN {<<s, e>> \in (0..n) \X (0..n) : s <= e} \cup {<<s, NoEnd>> : s \in 0..n}
    ELSE {<<0, NoEnd>>}

\* the collaborator misbehaves on short corpora only; on the long one every
\* response is the plain annotation
InitialBudget(n) == IF n <= SmallLen THEN MaxDeviations ELSE 0

----------------------------------------------------------------------------
(* The normaliser's variables while the processor runs *)

NormIdle ==
    /\ npc = "unused"
    /\ heap = <<>>
    /\ inputBefore = None
    /\ resultOnce = None
    /\ returned = "none"

\* the vocabulary mapper's variables while another component runs
MapIdle ==
    /\ mpc = "unused"
    /\ raw_question = <<>>
    /\ converted_question = <<>>
    /\ bi_question = <<>>

\* the corpus converter's variables while another component runs
ConvIdle ==
    /\ cpc = "unused"
    /\ training_data = <<>>
    /\ bi_training_data = <<>>
    /\ output_file = <<>>
    /\ cerror = None

\* the quality analyzer's variables while another component runs
AnaIdle ==
    /\ apc = "unused"
    /\ bi_data = <<>>
    /\ analysis = None
    /\ aerror = None
    /\ score = -1
    /\ analysis_file = <<>>

\* the prompt assembler's variables while another component runs
PromptIdle ==
    /\ ppc = "unused"
    /\ template_parts = <<>>
    /\ prompt_template = <<>>
    /\ context = <<>>
    /\ prompt_question = <<>>
    /\ prompt = <<>>
    /\ perror = None

----------------------------------------------------------------------------
(* TrainingDataProcessor *)

\* TrainingDataProcessor(): a fresh processor, and the corpus on disk
InitProcessor ==
    /\ \E n \in (1..SmallLen) \cup {LargeLen} :
          /\ data = Corpus(n)
          /\ budget = InitialBudget(n)
    /\ processed_data = <<>>
    /\ tempFiles = <<>>
    /\ finalFile = <<>>
    /\ pc = "idle"
    /\ start_index = 0 /\ end_index = 0 /\ batch_size = 1
    /\ i = 0 /\ j = 0
    /\ batch_results = <<>>
    /\ base = 0
    /\ propagated = {}
    /\ invocations = 0
    /\ caller = "none"
    /\ question = 0 /\ max_retries = 0 /\ attempt = 0
    /\ content = ""
    /\ calls = 0
    /\ lastOutcome = "none"
    /\ pq_exit = "none"
    /\ pq_result = None
    /\ sinceCall = -1
    /\ lastGap = -1

Init == InitProcessor /\ NormIdle /\ MapIdle /\ ConvIdle /\ AnaIdle /\ PromptIdle

\* entering process_question(q, r): build_prompt, then the for loop
EnterProcessQuestion(q, r, who) ==
    /\ caller' = who
    /\ question' = q
    /\ max_retries' = r
    /\ attempt' = 0
    /\ content' = ""
    /\ calls' = 0
    /\ lastOutcome' = "none"
    /\ pq_exit' = "running"
    /\ pq_result' = None
    /\ pc' = "pq_for"

\* a caller outside the batch loop calls process_question(question, max_retries),
\* with any retry bound in 0..MaxR
CallProcessQuestion ==
    /\ pc = "idle"
    /\ Len(data) <= SmallLen
    /\ \E q \in {data[k].input : k \in 1..Len(data)}, r \in 0..MaxR :
          EnterProcessQuestion(q, r, "direct")
    /\ sinceCall' = -1
    /\ lastGap' = -1
    /\ UNCHANGED <<normVars, toolVars, data, processed_data, tempFiles, finalFile, start_index, end_index,
                   batch_size, i, j, batch_results, base, propagated, invocations, budget>>

batchVars == <<data, processed_data, tempFiles, finalFile, start_index, end_index,
               batch_size, i, j, batch_results, base, propagated, invocations>>

\* for attempt in range(max_retries): client.chat.completions.create(...) is issued
IssueCompletionCall ==
    /\ pc = "pq_for"
    /\ attempt < max_retries
    /\ calls' = calls + 1
    /\ lastGap' = sinceCall
    /\ sinceCall' = 0
    /\ pc' = "pq_create"
    /\ UNCHANGED <<normVars, toolVars, batchVars, caller, question, max_retries, attempt, content,
                   lastOutcome, pq_exit, pq_result, budget>>

\* range(max_retries) is exhausted: the function falls off its end and returns None
FallOffLoop ==
    /\ pc = "pq_for"
    /\ attempt >= max_retries
    /\ pq_exit' = "NONE"
    /\ pq_result' = None
    /\ pc' = "pq_end"
    /\ UNCHANGED <<normVars, toolVars, batchVars, caller, question, max_retries, attempt, content, calls,
                   lastOutcome, sinceCall, lastGap, budget>>

\* the collaborator answers c; the plain annotation is free, the rest use the budget
Answers(c) ==
    /\ pc = "pq_create"
    /\ c \in Contents
    /\ IF c = PlainAnnotation THEN budget' = budget
       ELSE budget > 0 /\ budget' = budget - 1
    /\ content' = c

\* json.loads(content) succeeds: return {"input": question, "output": result}
ReturnParsed ==
    /\ \E c \in Contents :
          /\ Answers(c)
          /\ ~IsParseFailure(c)
          /\ pq_result' = [input |-> question, output |-> JsonLoads(c)]
    /\ lastOutcome' = "ok"
    /\ pq_exit' = "SUCCESS"
    /\ pc' = "pq_end"
    /\ UNCHANGED <<normVars, toolVars, batchVars, caller, question, max_retries, attempt, calls,
                   sinceCall, lastGap>>

\* a parse failure that does not use up an attempt
ParseFailRetry_Uncounted ==
    /\ \E c \in Contents : Answers(c) /\ IsParseFailure(c)
    /\ ~LastAttempt
    /\ lastOutcome' = "parse"
    /\ pc' = "pq_for"
    /\ UNCHANGED <<normVars, toolVars, batchVars, caller, question, max_retries, attempt,
                   calls, pq_exit, pq_result, sinceCall, lastGap>>

\* json.JSONDecodeError before the last attempt: continue
ParseFailRetry ==
    /\ \E c \in Contents : Answers(c) /\ IsParseFailure(c)
    /\ ~LastAttempt
    /\ lastOutcome' = "parse"
    /\ attempt' = attempt + 1
    /\ pc' = "pq_for"
    /\ UNCHANGED <<normVars, toolVars, batchVars, caller, question, max_retries, calls, pq_exit, pq_result,
                   sinceCall, lastGap>>

\* json.JSONDecodeError on the last attempt: return the basic structure
ParseFailFallback ==
    /\ \E c \in Contents : Answers(c) /\ IsParseFailure(c)
    /\ LastAttempt
    /\ lastOutcome' = "parse"
    /\ pq_result' = FallbackSkeleton(question)
    /\ pq_exit' = "FALLBACK"
    /\ pc' = "pq_end"
    /\ UNCHANGED <<normVars, toolVars, batchVars, caller, question, max_retries, attempt, calls,
                   sinceCall, lastGap>>

\* the call raises
Raises ==
    /\ pc = "pq_create"
    /\ budget > 0
    /\ budget' = budget - 1
    /\ lastOutcome' = "transport"

\* except Exception before the last attempt: time.sleep(2 ** attempt), next attempt
TransportRetry ==
    /\ Raises
    /\ ~LastAttempt
    /\ sinceCall' = Sleep(Backoff(attempt))
    /\ attempt' = attempt + 1
    /\ pc' = "pq_for"
    /\ UNCHANGED <<normVars, toolVars, batchVars, caller, question, max_retries, content, calls, pq_exit,
                   pq_result, lastGap>>

\* except Exception on the last attempt: raise e
TransportPropagate ==
    /\ Raises
    /\ LastAttempt
    /\ pq_exit' = "PROPAGATED_ERROR"
    /\ pq_result' = None
    /\ pc' = "pq_end"
    /\ UNCHANGED <<normVars, toolVars, batchVars, caller, question, max_retries, attempt, content, calls,
                   sinceCall, lastGap>>

\* process_question's frame is gone
PqIdle ==
    /\ caller' = "none"
    /\ question' = 0 /\ max_retries' = 0 /\ attempt' = 0
    /\ content' = ""
    /\ calls' = 0
    /\ lastOutcome' = "none"
    /\ pq_exit' = "none"
    /\ pq_result' = None
    /\ sinceCall' = -1
    /\ lastGap' = -1

\* the direct caller has its answer
DirectReturn ==
    /\ pc = "pq_end"
    /\ caller = "direct"
    /\ pc' = "idle"
    /\ PqIdle
    /\ UNCHANGED <<normVars, toolVars, batchVars, budget>>

pqVars == <<caller, question, max_retries, attempt, content, calls, lastOutcome,
            pq_exit, pq_result>>

\* process_training_data(input_file, output_file, s, e, b) is called
ProcessTrainingData ==
    /\ pc = "idle"
    /\ invocations < MaxInvocations
    /\ invocations' = invocations + 1
    /\ \E r \in Ranges(Len(data)), b \in BatchSizes :
          /\ start_index' = r[1]
          /\ end_index' = IF r[2] = NoEnd THEN Len(data) ELSE r[2]
          /\ batch_size' = b
    /\ i' = 0 /\ j' = 0
    /\ batch_results' = <<>>
    /\ base' = Len(processed_data)
    /\ propagated' = {}
    /\ sinceCall' = -1
    /\ lastGap' = -1
    /\ pc' = "batch_for"
    /\ UNCHANGED <<normVars, toolVars, data, processed_data, tempFiles, finalFile, pqVars, budget>>

\* for i in range(0, len(data_to_process), batch_size): the next batch starts
StartBatch ==
    /\ pc = "batch_for"
    /\ i < Len(DataToProcess)
    /\ batch_results' = <<>>
    /\ j' = 0
    /\ pc' = "example_for"
    /\ UNCHANGED <<normVars, toolVars, data, processed_data, tempFiles, finalFile, start_index, end_index,
                   batch_size, i, base, propagated, invocations, pqVars, sinceCall,
                   lastGap, budget>>

\* for j, example in enumerate(batch): result = self.process_question(question)
StartExample ==
    /\ pc = "example_for"
    /\ j < Len(Batch)
    /\ EnterProcessQuestion(Batch[j + 1].input, DefaultMaxRetries, "batch")
    /\ UNCHANGED <<normVars, toolVars, batchVars, sinceCall, lastGap, budget>>

\* process_question returned: batch_results.append(result); time.sleep(0.5)
AppendResult ==
    /\ pc = "pq_end"
    /\ caller = "batch"
    /\ pq_exit # "PROPAGATED_ERROR"
    /\ batch_results' = Append(batch_results, pq_result)
    /\ sinceCall' = Sleep(InterCallDelay)
    /\ j' = j + 1
    /\ pc' = "example_for"
    /\ UNCHANGED <<normVars, toolVars, data, processed_data, tempFiles, finalFile, start_index, end_index,
                   batch_size, i, base, propagated, invocations, pqVars, lastGap, budget>>

\* process_question raised, and the example is left out
AppendOriginal_Dropped ==
    /\ pc = "pq_end"
    /\ caller = "batch"
    /\ pq_exit = "PROPAGATED_ERROR"
    /\ propagated' = propagated \cup {i + j + 1}
    /\ j' = j + 1
    /\ pc' = "example_for"
    /\ UNCHANGED <<normVars, toolVars, data, processed_data, tempFiles, finalFile, start_index, end_index,
                   batch_size, i, batch_results, base, invocations, pqVars, sinceCall,
                   lastGap, budget>>

\* process_question raised: except Exception: batch_results.append(example)
AppendOriginal ==
    /\ pc = "pq_end"
    /\ caller = "batch"
    /\ pq_exit = "PROPAGATED_ERROR"
    /\ batch_results' = Append(batch_results, Batch[j + 1])
    /\ propagated' = propagated \cup {i + j + 1}
    /\ j' = j + 1
    /\ pc' = "example_for"
    /\ UNCHANGED <<normVars, toolVars, data, processed_data, tempFiles, finalFile, start_index, end_index,
                   batch_size, i, base, invocations, pqVars, sinceCall, lastGap, budget>>

\* save_intermediate_results: json.dump(self.processed_data) to <output_file>.temp_<s>_<e>
save_intermediate_results(results) ==
    (<<start_index, end_index>> :> results) @@ tempFiles

\* the batch's results are put in front of the earlier ones
EndBatch_Prepend ==
    /\ pc = "example_for"
    /\ j >= Len(Batch)
    /\ processed_data' = batch_results \o processed_data
    /\ tempFiles' = IF (i + batch_size) % CheckpointPeriod = 0
                    THEN save_intermediate_results(batch_results \o processed_data)
                    ELSE tempFiles
    /\ i' = i + batch_size
    /\ pc' = "batch_for"
    /\ UNCHANGED <<normVars, toolVars, data, finalFile, start_index, end_index, batch_size,
                   j, batch_results, base, propagated, invocations, pqVars, sinceCall,
                   lastGap, budget>>

\* the batch is over: extend processed_data, checkpoint when (i + batch_size) % 50 == 0
EndBatch ==
    /\ pc = "example_for"
    /\ j >= Len(Batch)
    /\ processed_data' = processed_data \o batch_results
    /\ tempFiles' = IF (i + batch_size) % CheckpointPeriod = 0
                    THEN save_intermediate_results(processed_data \o batch_results)
                    ELSE tempFiles
    /\ i' = i + batch_size
    /\ pc' = "batch_for"
    /\ UNCHANGED <<normVars, toolVars, data, finalFile, start_index, end_index, batch_size, j, batch_results,
                   base, propagated, invocations, pqVars, sinceCall, lastGap, budget>>

\* after the loop: save_final_results writes self.processed_data to output_file
save_final_results ==
    /\ pc = "batch_for"
    /\ i >= Len(DataToProcess)
    /\ finalFile' = <<processed_data>>
    /\ pc' = "finished"
    /\ UNCHANGED <<normVars, toolVars, data, processed_data, tempFiles, start_index, end_index, batch_size,
                   i, j, batch_results, base, propagated, invocations, pqVars, sinceCall,
                   lastGap, budget>>

\* process_training_data has returned to its caller
BackToIdle ==
    /\ pc = "finished"
    /\ pc' = "idle"
    /\ start_index' = 0 /\ end_index' = 0 /\ batch_size' = 1
    /\ i' = 0 /\ j' = 0
    /\ batch_results' = <<>>
    /\ base' = 0
    /\ propagated' = {}
    /\ PqIdle
    /\ UNCHANGED <<normVars, toolVars, data, processed_data, tempFiles, finalFile, invocations,
                   budget>>

Next ==
    \/ CallProcessQuestion
    \/ IssueCompletionCall
    \/ FallOffLoop
    \/ ReturnParsed
    \/ ParseFailRetry
    \/ ParseFailFallback
    \/ TransportRetry
    \/ TransportPropagate
    \/ DirectReturn
    \/ ProcessTrainingData
    \/ StartBatch
    \/ StartExample
    \/ AppendResult
    \/ AppendOriginal
    \/ EndBatch
    \/ save_final_results
    \/ BackToIdle

Spec == Init /\ [][Next]_vars

----------------------------------------------------------------------------
(* One TrainingDataProcessor used for several runs *)

\* the batch sizes of the repeated runs: single examples, and one batch that ends
\* on a checkpoint
ReuseBatchSizes == {1, CheckpointPeriod}

\* TrainingDataProcessor(): a fresh processor, a short corpus, and a collaborator
\* that answers every call with the plain annotation
InitReuse ==
    /\ \E n \in 1..SmallLen : data = Corpus(n)
    /\ budget = 0
    /\ processed_data = <<>>
    /\ tempFiles = <<>>
    /\ finalFile = <<>>
    /\ pc = "idle"
    /\ start_index = 0 /\ end_index = 0 /\ batch_size = 1
    /\ i = 0 /\ j = 0
    /\ batch_results = <<>>
    /\ base = 0
    /\ propagated = {}
    /\ invocations = 0
    /\ caller = "none"
    /\ question = 0 /\ max_retries = 0 /\ attempt = 0
    /\ content = ""
    /\ calls = 0
    /\ lastOutcome = "none"
    /\ pq_exit = "none"
    /\ pq_result = None
    /\ sinceCall = -1
    /\ lastGap = -1

\* process_training_data(input_file, output_file, s, e, b) is called on the same
\* processor, for the first time or again: nothing of self is reset
ProcessTrainingDataAgain ==
    /\ pc = "idle"
    /\ invocations < MaxReuse
    /\ invocations' = invocations + 1
    /\ \E r \in Ranges(Len(data)), b \in ReuseBatchSizes :
          /\ start_index' = r[1]
          /\ end_index' = IF r[2] = NoEnd THEN Len(data) ELSE r[2]
          /\ batch_size' = b
    /\ i' = 0 /\ j' = 0
    /\ batch_results' = <<>>
    /\ base' = Len(processed_data)
    /\ propagated' = {}
    /\ sinceCall' = -1
    /\ lastGap' = -1
    /\ pc' = "batch_for"
    /\ UNCHANGED <<normVars, toolVars, data, processed_data, tempFiles, finalFile, pqVars,
                   budget>>

NextReuse ==
    \/ ProcessTrainingDataAgain
    \/ StartBatch
    \/ StartExample
    \/ IssueCompletionCall
    \/ ReturnParsed
    \/ AppendResult
    \/ EndBatch
    \/ save_final_results
    \/ BackToIdle

InitReusing == InitReuse /\ NormIdle /\ MapIdle /\ ConvIdle /\ AnaIdle /\ PromptIdle

SpecReuse == InitReusing /\ [][NextReuse]_vars

----------------------------------------------------------------------------
(* convert_output_to_bi *)

\* if measure["name"] == "Count": ... elif ... == "Sum": measure["name"] = "Total"
ConvertMeasureName(n) ==
    CASE n = "Count" -> "Total"
      [] n = "Average" -> "Average"
      [] n = "Max" -> "Maximum"
      [] n = "Min" -> "Minimum"
      [] n = "Sum" -> "Total"
      [] OTHER -> n

\* if dimension["name"] == "Geographic": ... elif ... == "Categorical": ... = "Category"
ConvertDimensionName(n) ==
    CASE n = "Geographic" -> "Region"
      [] n = "Temporal" -> "Time"
      [] n = "Entity" -> "Entity"
      [] n = "Categorical" -> "Category"
      [] OTHER -> n

\* the phrase groups, with companies rewritten to a phrase of the first group
ConvertPhrase_Chained(ph) ==
    CASE ph \in {"departments", "employees", "customers", "students"} -> "users"
      [] ph \in {"budget", "sales", "revenue"} -> "revenue"
      [] ph \in {"companies", "schools", "organizations"} -> "customers"
      [] OTHER -> ph

\* if intent["phrase"] in [...]: intent["phrase"] = "users" / "revenue" / "publishers"
ConvertPhrase(ph) ==
    CASE ph \in {"departments", "employees", "customers", "students"} -> "users"
      [] ph \in {"budget", "sales", "revenue"} -> "revenue"
      [] ph \in {"companies", "schools", "organizations"} -> "publishers"
      [] OTHER -> ph

\* for measure in result["measures"]: if "name" in measure: ...
ConvertMeasure(m) ==
    IF "name" \in DOMAIN m THEN [m EXCEPT !["name"] = ConvertMeasureName(m["name"])] ELSE m

\* for dimension in result["dimensions"]: if "name" in dimension: ...
ConvertDimension(d) ==
    IF "name" \in DOMAIN d THEN [d EXCEPT !["name"] = ConvertDimensionName(d["name"])] ELSE d

\* for intent in result["unmatched_intents"]: if "phrase" in intent: ...
ConvertIntent(u) ==
    IF "phrase" \in DOMAIN u THEN [u EXCEPT !["phrase"] = ConvertPhrase(u["phrase"])] ELSE u

\* the loop body, with the measures that carry no name left out of the list
ConvertResult_DropUnnamed(result) ==
    [key \in DOMAIN result |->
        CASE key = "measures" ->
                LET named == SelectSeq(result[key], LAMBDA m : "name" \in DOMAIN m)
                IN  [x \in 1..Len(named) |-> ConvertMeasure(named[x])]
          [] key = "dimensions" ->
                [x \in 1..Len(result[key]) |-> ConvertDimension(result[key][x])]
          [] key = "unmatched_intents" ->
                [x \in 1..Len(result[key]) |-> ConvertIntent(result[key][x])]
          [] OTHER -> result[key]]

\* the body of "for result in converted_output["discovery_results"]", on one step
ConvertResult(result) ==
    [key \in DOMAIN result |->
        CASE key = "measures" ->
                [x \in 1..Len(result[key]) |-> ConvertMeasure(result[key][x])]
          [] key = "dimensions" ->
                [x \in 1..Len(result[key]) |-> ConvertDimension(result[key][x])]
          [] key = "unmatched_intents" ->
                [x \in 1..Len(result[key]) |-> ConvertIntent(result[key][x])]
          [] OTHER -> result[key]]

\* the list object after the loop over it
ConvertResults(list) == [x \in 1..Len(list) |-> ConvertResult(list[x])]

\* a reference to the object at address a
Ref(a) == [ref |-> a]

\* the address of the list object that the dict at address d refers to
ListOf(h, d) == h[d]["discovery_results"].ref

\* converted_output = output.copy(): a new dict whose values are the same objects
CopyOutput(h, d, new) == (new :> h[d]) @@ h

\* convert_output_to_bi(output), output at address d: the heap when it returns new
convert_output_to_bi(h, d, new) ==
    LET copied == CopyOutput(h, d, new)
    IN  IF "discovery_results" \in DOMAIN copied[new]
        THEN [copied EXCEPT ![ListOf(copied, new)] = ConvertResults(@)]
        ELSE copied

\* the record at address d as its holder reads it
Value(h, d) ==
    [key \in DOMAIN h[d] |->
        IF key = "discovery_results" THEN h[ListOf(h, d)] ELSE h[d][key]]

\* the records the model hands to the normaliser
MeasureNames == {"Count", "Average", "Max", "Min", "Sum", "Revenue"}
DimensionNames == {"Geographic", "Temporal", "Entity", "Categorical", "Device"}
Phrases == {"departments", "employees", "customers", "students", "budget", "sales",
            "revenue", "companies", "schools", "organizations", "clicks"}
Lists == {"measures", "dimensions", "unmatched_intents"}

ItemsFor(l) ==
    CASE l = "measures" ->
            {[name |-> n] : n \in MeasureNames} \cup {[expression |-> "COUNT(*)"]}
      [] l = "dimensions" ->
            {[name |-> n] : n \in DimensionNames} \cup {[column |-> "country"]}
      [] l = "unmatched_intents" ->
            {[phrase |-> ph] : ph \in Phrases} \cup {[reason |-> "unknown"]}

EntriesFor(n) ==
    UNION {{[step |-> k, list |-> l, item |-> it] : it \in ItemsFor(l)} :
                k \in 1..n, l \in Lists}

RECURSIVE ItemsAt(_, _, _)
ItemsAt(es, k, l) ==
    IF es = <<>> THEN <<>>
    ELSE (IF es[1].step = k /\ es[1].list = l THEN <<es[1].item>> ELSE <<>>)
            \o ItemsAt(Tail(es), k, l)

\* discovery step k: under sparse, a list with no entry is a missing key
StepOf(es, k, sparse) ==
    LET keys == {"step_id", "segments", "breakdowns"}
                    \cup {l \in Lists : ~sparse \/ ItemsAt(es, k, l) # <<>>}
    IN  [key \in keys |->
            CASE key = "step_id" -> IF k = 1 THEN "step_1" ELSE "step_2"
              [] key = "segments" -> <<"mobile">>
              [] key = "breakdowns" -> <<>>
              [] OTHER -> ItemsAt(es, k, key)]

StepsOf(n, es, sparse) == [k \in 1..n |-> StepOf(es, k, sparse)]

SeqsUpTo(S, n) == UNION {[1..m -> S] : m \in 0..n}

\* entries listed step by step: the order of two entries matters only inside one list
ListRank(l) == CASE l = "measures" -> 1 [] l = "dimensions" -> 2 [] OTHER -> 3
EntryRank(e) == 3 * e.step + ListRank(e.list)
InStepOrder(es) == \A x \in 1..(Len(es) - 1) : EntryRank(es[x]) <= EntryRank(es[x + 1])

\* the processor's variables while the normaliser runs
ProcIdle ==
    /\ data = <<>>
    /\ budget = 0
    /\ processed_data = <<>>
    /\ tempFiles = <<>>
    /\ finalFile = <<>>
    /\ pc = "unused"
    /\ start_index = 0 /\ end_index = 0 /\ batch_size = 1
    /\ i = 0 /\ j = 0
    /\ batch_results = <<>>
    /\ base = 0
    /\ propagated = {}
    /\ invocations = 0
    /\ caller = "none"
    /\ question = 0 /\ max_retries = 0 /\ attempt = 0
    /\ content = ""
    /\ calls = 0
    /\ lastOutcome = "none"
    /\ pq_exit = "none"
    /\ pq_result = None
    /\ sinceCall = -1
    /\ lastGap = -1

\* the caller holds an AnnotationRecord at address "output"
InitNormalizer ==
    /\ \/ heap = ("output" :> [intent |-> "intents_discovery"])
       \/ \E n \in 0..MaxSteps, sparse \in BOOLEAN :
            \E es \in {q \in SeqsUpTo(EntriesFor(n), MaxEntries) : InStepOrder(q)} :
                heap = ("output" :> [intent |-> "intents_discovery",
                                     discovery_results |-> Ref("results")])
                        @@ ("results" :> StepsOf(n, es, sparse))
    /\ inputBefore = Value(heap, "output")
    /\ resultOnce = None
    /\ returned = "none"
    /\ npc = "ready"

\* bi_output = convert_output_to_bi(example["output"])
ConvertOnce ==
    /\ npc = "ready"
    /\ heap' = convert_output_to_bi(heap, "output", "converted")
    /\ returned' = "converted"
    /\ resultOnce' = Value(heap', "converted")
    /\ npc' = "once"
    /\ UNCHANGED <<procVars, toolVars, inputBefore>>

\* the returned record is itself handed to convert_output_to_bi
ConvertTwice ==
    /\ npc = "once"
    /\ heap' = convert_output_to_bi(heap, returned, "converted again")
    /\ returned' = "converted again"
    /\ npc' = "twice"
    /\ UNCHANGED <<procVars, toolVars, inputBefore, resultOnce>>

NextNormalizer ==
    \/ ConvertOnce
    \/ ConvertTwice

InitNormalization ==
    InitNormalizer /\ ProcIdle /\ MapIdle /\ ConvIdle /\ AnaIdle /\ PromptIdle

SpecNormalizer == InitNormalization /\ [][NextNormalizer]_vars

----------------------------------------------------------------------------
(* Text: a Python str is a sequence of one-character strings *)

\* str.lower(), on the upper-case letters
LowerOf ==
    ("A" :> "a") @@ ("B" :> "b") @@ ("C" :> "c") @@ ("D" :> "d") @@ ("E" :> "e") @@
    ("F" :> "f") @@ ("G" :> "g") @@ ("H" :> "h") @@ ("I" :> "i") @@ ("J" :> "j") @@
    ("K" :> "k") @@ ("L" :> "l") @@ ("M" :> "m") @@ ("N" :> "n") @@ ("O" :> "o") @@
    ("P" :> "p") @@ ("Q" :> "q") @@ ("R" :> "r") @@ ("S" :> "s") @@ ("T" :> "t") @@
    ("U" :> "u") @@ ("V" :> "v") @@ ("W" :> "w") @@ ("X" :> "x") @@ ("Y" :> "y") @@
    ("Z" :> "z")

LowerChar(c) == IF c \in DOMAIN LowerOf THEN LowerOf[c] ELSE c

\* s.lower()
Lower(s) == [k \in 1..Len(s) |-> LowerChar(s[k])]

\* s[k:k + len(pat)] == pat
OccursAt(s, pat, k) ==
    /\ k + Len(pat) - 1 <= Len(s)
    /\ \A x \in 1..Len(pat) : s[k + x - 1] = pat[x]

\* pat in s
Contains(s, pat) == \E k \in 1..(Len(s) - Len(pat) + 1) : OccursAt(s, pat, k)

\* the non-overlapping occurrences of old, found left to right in ls from position
\* k on, replaced in s by new; ls is s, or s.lower() for a case-insensitive match
RECURSIVE ReplaceFrom(_, _, _, _, _)
ReplaceFrom(s, ls, old, new, k) ==
    IF k > Len(s) THEN <<>>
    ELSE IF OccursAt(ls, old, k)
         THEN new \o ReplaceFrom(s, ls, old, new, k + Len(old))
         ELSE <<s[k]>> \o ReplaceFrom(s, ls, old, new, k + 1)

\* s.replace(old, new), old not empty
Replace(s, old, new) == ReplaceFrom(s, s, old, new, 1)

\* s1 + s2 + ... for a sequence of texts
RECURSIVE Concat(_)
Concat(ss) == IF ss = <<>> THEN <<>> ELSE ss[1] \o Concat(Tail(ss))

----------------------------------------------------------------------------
(* convert_question_to_bi *)

\* BI_ENTITY_MAPPINGS, in the iteration order of the dict: each generic term with
\* its domain equivalents, every text a sequence of characters
BI_ENTITY_MAPPINGS == <<
    \* "departments": ["publishers", "advertisers", "bidders", "campaigns"]
    [generic_term |-> <<"d", "e", "p", "a", "r", "t", "m", "e", "n", "t", "s">>,
     bi_terms |-> << <<"p", "u", "b", "l", "i", "s", "h", "e", "r", "s">>,
                     <<"a", "d", "v", "e", "r", "t", "i", "s", "e", "r", "s">>,
                     <<"b", "i", "d", "d", "e", "r", "s">>,
                     <<"c", "a", "m", "p", "a", "i", "g", "n", "s">> >>],
    \* "employees": ["users", "customers", "viewers", "clicks"]
    [generic_term |-> <<"e", "m", "p", "l", "o", "y", "e", "e", "s">>,
     bi_terms |-> << <<"u", "s", "e", "r", "s">>,
                     <<"c", "u", "s", "t", "o", "m", "e", "r", "s">>,
                     <<"v", "i", "e", "w", "e", "r", "s">>,
                     <<"c", "l", "i", "c", "k", "s">> >>],
    \* "budget": ["revenue", "spend", "cost", "budget"]
    [generic_term |-> <<"b", "u", "d", "g", "e", "t">>,
     bi_terms |-> << <<"r", "e", "v", "e", "n", "u", "e">>,
                     <<"s", "p", "e", "n", "d">>,
                     <<"c", "o", "s", "t">>,
                     <<"b", "u", "d", "g", "e", "t">> >>],
    \* "companies": ["publishers", "advertisers", "platforms", "networks"]
    [generic_term |-> <<"c", "o", "m", "p", "a", "n", "i", "e", "s">>,
     bi_terms |-> << <<"p", "u", "b", "l", "i", "s", "h", "e", "r", "s">>,
                     <<"a", "d", "v", "e", "r", "t", "i", "s", "e", "r", "s">>,
                     <<"p", "l", "a", "t", "f", "o", "r", "m", "s">>,
                     <<"n", "e", "t", "w", "o", "r", "k", "s">> >>],
    \* "schools": ["websites", "apps", "channels", "sites"]
    [generic_term |-> <<"s", "c", "h", "o", "o", "l", "s">>,
     bi_terms |-> << <<"w", "e", "b", "s", "i", "t", "e", "s">>,
                     <<"a", "p", "p", "s">>,
                     <<"c", "h", "a", "n", "n", "e", "l", "s">>,
                     <<"s", "i", "t", "e", "s">> >>],
    \* "students": ["users", "visitors", "customers", "audience"]
    [generic_term |-> <<"s", "t", "u", "d", "e", "n", "t", "s">>,
     bi_terms |-> << <<"u", "s", "e", "r", "s">>,
                     <<"v", "i", "s", "i", "t", "o", "r", "s">>,
                     <<"c", "u", "s", "t", "o", "m", "e", "r", "s">>,
                     <<"a", "u", "d", "i", "e", "n", "c", "e">> >>],
    \* "customers": ["users", "viewers", "clients", "audience"]
    [generic_term |-> <<"c", "u", "s", "t", "o", "m", "e", "r", "s">>,
     bi_terms |-> << <<"u", "s", "e", "r", "s">>,
                     <<"v", "i", "e", "w", "e", "r", "s">>,
                     <<"c", "l", "i", "e", "n", "t", "s">>,
                     <<"a", "u", "d", "i", "e", "n", "c", "e">> >>],
    \* "products": ["ads", "campaigns", "creatives", "placements"]
    [generic_term |-> <<"p", "r", "o", "d", "u", "c", "t", "s">>,
     bi_terms |-> << <<"a", "d", "s">>,
                     <<"c", "a", "m", "p", "a", "i", "g", "n", "s">>,
                     <<"c", "r", "e", "a", "t", "i", "v", "e", "s">>,
                     <<"p", "l", "a", "c", "e", "m", "e", "n", "t", "s">> >>],
    \* "sales": ["impressions", "clicks", "conversions", "revenue"]
    [generic_term |-> <<"s", "a", "l", "e", "s">>,
     bi_terms |-> << <<"i", "m", "p", "r", "e", "s", "s", "i", "o", "n", "s">>,
                     <<"c", "l", "i", "c", "k", "s">>,
                     <<"c", "o", "n", "v", "e", "r", "s", "i", "o", "n", "s">>,
                     <<"r", "e", "v", "e", "n", "u", "e">> >>],
    \* "orders": ["requests", "bids", "impressions", "clicks"]
    [generic_term |-> <<"o", "r", "d", "e", "r", "s">>,
     bi_terms |-> << <<"r", "e", "q", "u", "e", "s", "t", "s">>,
                     <<"b", "i", "d", "s">>,
                     <<"i", "m", "p", "r", "e", "s", "s", "i", "o", "n", "s">>,
                     <<"c", "l", "i", "c", "k", "s">> >>],
    \* "payments": ["revenue", "spend", "cost", "payments"]
    [generic_term |-> <<"p", "a", "y", "m", "e", "n", "t", "s">>,
     bi_terms |-> << <<"r", "e", "v", "e", "n", "u", "e">>,
                     <<"s", "p", "e", "n", "d">>,
                     <<"c", "o", "s", "t">>,
                     <<"p", "a", "y", "m", "e", "n", "t", "s">> >>],
    \* "branches": ["locations", "regions", "markets", "territories"]
    [generic_term |-> <<"b", "r", "a", "n", "c", "h", "e", "s">>,
     bi_terms |-> << <<"l", "o", "c", "a", "t", "i", "o", "n", "s">>,
                     <<"r", "e", "g", "i", "o", "n", "s">>,
                     <<"m", "a", "r", "k", "e", "t", "s">>,
                     <<"t", "e", "r", "r", "i", "t", "o", "r", "i", "e", "s">> >>],
    \* "ships": ["campaigns", "ads", "creatives", "placements"]
    [generic_term |-> <<"s", "h", "i", "p", "s">>,
     bi_terms |-> << <<"c", "a", "m", "p", "a", "i", "g", "n", "s">>,
                     <<"a", "d", "s">>,
                     <<"c", "r", "e", "a", "t", "i", "v", "e", "s">>,
                     <<"p", "l", "a", "c", "e", "m", "e", "n", "t", "s">> >>],
    \* "films": ["ads", "videos", "creatives", "content"]
    [generic_term |-> <<"f", "i", "l", "m", "s">>,
     bi_terms |-> << <<"a", "d", "s">>,
                     <<"v", "i", "d", "e", "o", "s">>,
                     <<"c", "r", "e", "a", "t", "i", "v", "e", "s">>,
                     <<"c", "o", "n", "t", "e", "n", "t">> >>],
    \* "movies": ["ads", "videos", "creatives", "content"]
    [generic_term |-> <<"m", "o", "v", "i", "e", "s">>,
     bi_terms |-> << <<"a", "d", "s">>,
                     <<"v", "i", "d", "e", "o", "s">>,
                     <<"c", "r", "e", "a", "t", "i", "v", "e", "s">>,
                     <<"c", "o", "n", "t", "e", "n", "t">> >>],
    \* "books": ["ads", "creatives", "content", "materials"]
    [generic_term |-> <<"b", "o", "o", "k", "s">>,
     bi_terms |-> << <<"a", "d", "s">>,
                     <<"c", "r", "e", "a", "t", "i", "v", "e", "s">>,
                     <<"c", "o", "n", "t", "e", "n", "t">>,
                     <<"m", "a", "t", "e", "r", "i", "a", "l", "s">> >>],
    \* "sports": ["campaigns", "ads", "activities", "events"]
    [generic_term |-> <<"s", "p", "o", "r", "t", "s">>,
     bi_terms |-> << <<"c", "a", "m", "p", "a", "i", "g", "n", "s">>,
                     <<"a", "d", "s">>,
                     <<"a", "c", "t", "i", "v", "i", "t", "i", "e", "s">>,
                     <<"e", "v", "e", "n", "t", "s">> >>],
    \* "games": ["campaigns", "ads", "activities", "events"]
    [generic_term |-> <<"g", "a", "m", "e", "s">>,
     bi_terms |-> << <<"c", "a", "m", "p", "a", "i", "g", "n", "s">>,
                     <<"a", "d", "s">>,
                     <<"a", "c", "t", "i", "v", "i", "t", "i", "e", "s">>,
                     <<"e", "v", "e", "n", "t", "s">> >>],
    \* "directors": ["managers", "leaders", "operators", "controllers"]
    [generic_term |-> <<"d", "i", "r", "e", "c", "t", "o", "r", "s">>,
     bi_terms |-> << <<"m", "a", "n", "a", "g", "e", "r", "s">>,
                     <<"l", "e", "a", "d", "e", "r", "s">>,
                     <<"o", "p", "e", "r", "a", "t", "o", "r", "s">>,
                     <<"c", "o", "n", "t", "r", "o", "l", "l", "e", "r", "s">> >>],
    \* "count": ["total", "count", "number", "sum"]
    [generic_term |-> <<"c", "o", "u", "n", "t">>,
     bi_terms |-> << <<"t", "o", "t", "a", "l">>,
                     <<"c", "o", "u", "n", "t">>,
                     <<"n", "u", "m", "b", "e", "r">>,
                     <<"s", "u", "m">> >>],
    \* "total": ["total", "sum", "count", "number"]
    [generic_term |-> <<"t", "o", "t", "a", "l">>,
     bi_terms |-> << <<"t", "o", "t", "a", "l">>,
                     <<"s", "u", "m">>,
                     <<"c", "o", "u", "n", "t">>,
                     <<"n", "u", "m", "b", "e", "r">> >>],
    \* "average": ["average", "mean", "avg", "typical"]
    [generic_term |-> <<"a", "v", "e", "r", "a", "g", "e">>,
     bi_terms |-> << <<"a", "v", "e", "r", "a", "g", "e">>,
                     <<"m", "e", "a", "n">>,
                     <<"a", "v", "g">>,
                     <<"t", "y", "p", "i", "c", "a", "l">> >>],
    \* "maximum": ["maximum", "highest", "peak", "top"]
    [generic_term |-> <<"m", "a", "x", "i", "m", "u", "m">>,
     bi_terms |-> << <<"m", "a", "x", "i", "m", "u", "m">>,
                     <<"h", "i", "g", "h", "e", "s", "t">>,
                     <<"p", "e", "a", "k">>,
                     <<"t", "o", "p">> >>],
    \* "minimum": ["minimum", "lowest", "bottom", "least"]
    [generic_term |-> <<"m", "i", "n", "i", "m", "u", "m">>,
     bi_terms |-> << <<"m", "i", "n", "i", "m", "u", "m">>,
                     <<"l", "o", "w", "e", "s", "t">>,
                     <<"b", "o", "t", "t", "o", "m">>,
                     <<"l", "e", "a", "s", "t">> >>],
    \* "sum": ["sum", "total", "count", "number"]
    [generic_term |-> <<"s", "u", "m">>,
     bi_terms |-> << <<"s", "u", "m">>,
                     <<"t", "o", "t", "a", "l">>,
                     <<"c", "o", "u", "n", "t">>,
                     <<"n", "u", "m", "b", "e", "r">> >>],
    \* "name": ["name", "title", "label", "identifier"]
    [generic_term |-> <<"n", "a", "m", "e">>,
     bi_terms |-> << <<"n", "a", "m", "e">>,
                     <<"t", "i", "t", "l", "e">>,
                     <<"l", "a", "b", "e", "l">>,
                     <<"i", "d", "e", "n", "t", "i", "f", "i", "e", "r">> >>],
    \* "type": ["type", "category", "classification", "group"]
    [generic_term |-> <<"t", "y", "p", "e">>,
     bi_terms |-> << <<"t", "y", "p", "e">>,
                     <<"c", "a", "t", "e", "g", "o", "r", "y">>,
                     <<"c", "l", "a", "s", "s", "i", "f", "i", "c", "a", "t", "i", "o", "n">>,
                     <<"g", "r", "o", "u", "p">> >>],
    \* "status": ["status", "state", "condition", "phase"]
    [generic_term |-> <<"s", "t", "a", "t", "u", "s">>,
     bi_terms |-> << <<"s", "t", "a", "t", "u", "s">>,
                     <<"s", "t", "a", "t", "e">>,
                     <<"c", "o", "n", "d", "i", "t", "i", "o", "n">>,
                     <<"p", "h", "a", "s", "e">> >>],
    \* "location": ["location", "region", "area", "market"]
    [generic_term |-> <<"l", "o", "c", "a", "t", "i", "o", "n">>,
     bi_terms |-> << <<"l", "o", "c", "a", "t", "i", "o", "n">>,
                     <<"r", "e", "g", "i", "o", "n">>,
                     <<"a", "r", "e", "a">>,
                     <<"m", "a", "r", "k", "e", "t">> >>],
    \* "date": ["date", "time", "period", "duration"]
    [generic_term |-> <<"d", "a", "t", "e">>,
     bi_terms |-> << <<"d", "a", "t", "e">>,
                     <<"t", "i", "m", "e">>,
                     <<"p", "e", "r", "i", "o", "d">>,
                     <<"d", "u", "r", "a", "t", "i", "o", "n">> >>],
    \* "year": ["year", "period", "timeframe", "duration"]
    [generic_term |-> <<"y", "e", "a", "r">>,
     bi_terms |-> << <<"y", "e", "a", "r">>,
                     <<"p", "e", "r", "i", "o", "d">>,
                     <<"t", "i", "m", "e", "f", "r", "a", "m", "e">>,
                     <<"d", "u", "r", "a", "t", "i", "o", "n">> >>],
    \* "month": ["month", "period", "timeframe", "duration"]
    [generic_term |-> <<"m", "o", "n", "t", "h">>,
     bi_terms |-> << <<"m", "o", "n", "t", "h">>,
                     <<"p", "e", "r", "i", "o", "d">>,
                     <<"t", "i", "m", "e", "f", "r", "a", "m", "e">>,
                     <<"d", "u", "r", "a", "t", "i", "o", "n">> >>],
    \* "day": ["day", "date", "time", "period"]
    [generic_term |-> <<"d", "a", "y">>,
     bi_terms |-> << <<"d", "a", "y">>,
                     <<"d", "a", "t", "e">>,
                     <<"t", "i", "m", "e">>,
                     <<"p", "e", "r", "i", "o", "d">> >>],
    \* "age": ["age", "duration", "period", "time"]
    [generic_term |-> <<"a", "g", "e">>,
     bi_terms |-> << <<"a", "g", "e">>,
                     <<"d", "u", "r", "a", "t", "i", "o", "n">>,
                     <<"p", "e", "r", "i", "o", "d">>,
                     <<"t", "i", "m", "e">> >>],
    \* "rank": ["rank", "position", "order", "level"]
    [generic_term |-> <<"r", "a", "n", "k">>,
     bi_terms |-> << <<"r", "a", "n", "k">>,
                     <<"p", "o", "s", "i", "t", "i", "o", "n">>,
                     <<"o", "r", "d", "e", "r">>,
                     <<"l", "e", "v", "e", "l">> >>],
    \* "value": ["value", "amount", "quantity", "measure"]
    [generic_term |-> <<"v", "a", "l", "u", "e">>,
     bi_terms |-> << <<"v", "a", "l", "u", "e">>,
                     <<"a", "m", "o", "u", "n", "t">>,
                     <<"q", "u", "a", "n", "t", "i", "t", "y">>,
                     <<"m", "e", "a", "s", "u", "r", "e">> >>],
    \* "amount": ["amount", "value", "quantity", "measure"]
    [generic_term |-> <<"a", "m", "o", "u", "n", "t">>,
     bi_terms |-> << <<"a", "m", "o", "u", "n", "t">>,
                     <<"v", "a", "l", "u", "e">>,
                     <<"q", "u", "a", "n", "t", "i", "t", "y">>,
                     <<"m", "e", "a", "s", "u", "r", "e">> >>],
    \* "price": ["price", "cost", "value", "amount"]
    [generic_term |-> <<"p", "r", "i", "c", "e">>,
     bi_terms |-> << <<"p", "r", "i", "c", "e">>,
                     <<"c", "o", "s", "t">>,
                     <<"v", "a", "l", "u", "e">>,
                     <<"a", "m", "o", "u", "n", "t">> >>],
    \* "cost": ["cost", "price", "value", "amount"]
    [generic_term |-> <<"c", "o", "s", "t">>,
     bi_terms |-> << <<"c", "o", "s", "t">>,
                     <<"p", "r", "i", "c", "e">>,
                     <<"v", "a", "l", "u", "e">>,
                     <<"a", "m", "o", "u", "n", "t">> >>],
    \* "enrollment": ["engagement", "participation", "involvement", "activity"]
    [generic_term |-> <<"e", "n", "r", "o", "l", "l", "m", "e", "n", "t">>,
     bi_terms |-> << <<"e", "n", "g", "a", "g", "e", "m", "e", "n", "t">>,
                     <<"p", "a", "r", "t", "i", "c", "i", "p", "a", "t", "i", "o", "n">>,
                     <<"i", "n", "v", "o", "l", "v", "e", "m", "e", "n", "t">>,
                     <<"a", "c", "t", "i", "v", "i", "t", "y">> >>],
    \* "population": ["audience", "users", "viewers", "participants"]
    [generic_term |-> <<"p", "o", "p", "u", "l", "a", "t", "i", "o", "n">>,
     bi_terms |-> << <<"a", "u", "d", "i", "e", "n", "c", "e">>,
                     <<"u", "s", "e", "r", "s">>,
                     <<"v", "i", "e", "w", "e", "r", "s">>,
                     <<"p", "a", "r", "t", "i", "c", "i", "p", "a", "n", "t", "s">> >>],
    \* "market_value": ["revenue", "value", "worth", "performance"]
    [generic_term |-> <<"m", "a", "r", "k", "e", "t", "_", "v", "a", "l", "u", "e">>,
     bi_terms |-> << <<"r", "e", "v", "e", "n", "u", "e">>,
                     <<"v", "a", "l", "u", "e">>,
                     <<"w", "o", "r", "t", "h">>,
                     <<"p", "e", "r", "f", "o", "r", "m", "a", "n", "c", "e">> >>],
    \* "tonnage": ["volume", "capacity", "size", "amount"]
    [generic_term |-> <<"t", "o", "n", "n", "a", "g", "e">>,
     bi_terms |-> << <<"v", "o", "l", "u", "m", "e">>,
                     <<"c", "a", "p", "a", "c", "i", "t", "y">>,
                     <<"s", "i", "z", "e">>,
                     <<"a", "m", "o", "u", "n", "t">> >>],
    \* "nationality": ["origin", "source", "location", "region"]
    [generic_term |-> <<"n", "a", "t", "i", "o", "n", "a", "l", "i", "t", "y">>,
     bi_terms |-> << <<"o", "r", "i", "g", "i", "n">>,
                     <<"s", "o", "u", "r", "c", "e">>,
                     <<"l", "o", "c", "a", "t", "i", "o", "n">>,
                     <<"r", "e", "g", "i", "o", "n">> >>],
    \* "headquarters": ["location", "region", "market", "area"]
    [generic_term |-> <<"h", "e", "a", "d", "q", "u", "a", "r", "t", "e", "r", "s">>,
     bi_terms |-> << <<"l", "o", "c", "a", "t", "i", "o", "n">>,
                     <<"r", "e", "g", "i", "o", "n">>,
                     <<"m", "a", "r", "k", "e", "t">>,
                     <<"a", "r", "e", "a">> >>],
    \* "industry": ["category", "type", "sector", "domain"]
    [generic_term |-> <<"i", "n", "d", "u", "s", "t", "r", "y">>,
     bi_terms |-> << <<"c", "a", "t", "e", "g", "o", "r", "y">>,
                     <<"t", "y", "p", "e">>,
                     <<"s", "e", "c", "t", "o", "r">>,
                     <<"d", "o", "m", "a", "i", "n">> >>],
    \* "affiliation": ["association", "connection", "relationship", "partnership"]
    [generic_term |-> <<"a", "f", "f", "i", "l", "i", "a", "t", "i", "o", "n">>,
     bi_terms |-> << <<"a", "s", "s", "o", "c", "i", "a", "t", "i", "o", "n">>,
                     <<"c", "o", "n", "n", "e", "c", "t", "i", "o", "n">>,
                     <<"r", "e", "l", "a", "t", "i", "o", "n", "s", "h", "i", "p">>,
                     <<"p", "a", "r", "t", "n", "e", "r", "s", "h", "i", "p">> >>],
    \* "foundation": ["creation", "start", "beginning", "launch"]
    [generic_term |-> <<"f", "o", "u", "n", "d", "a", "t", "i", "o", "n">>,
     bi_terms |-> << <<"c", "r", "e", "a", "t", "i", "o", "n">>,
                     <<"s", "t", "a", "r", "t">>,
                     <<"b", "e", "g", "i", "n", "n", "i", "n", "g">>,
                     <<"l", "a", "u", "n", "c", "h">> >>],
    \* "establishment": ["creation", "start", "beginning", "launch"]
    [generic_term |-> <<"e", "s", "t", "a", "b", "l", "i", "s", "h", "m", "e", "n", "t">>,
     bi_terms |-> << <<"c", "r", "e", "a", "t", "i", "o", "n">>,
                     <<"s", "t", "a", "r", "t">>,
                     <<"b", "e", "g", "i", "n", "n", "i", "n", "g">>,
                     <<"l", "a", "u", "n", "c", "h">> >>],
    \* "creation": ["creation", "start", "beginning", "launch"]
    [generic_term |-> <<"c", "r", "e", "a", "t", "i", "o", "n">>,
     bi_terms |-> << <<"c", "r", "e", "a", "t", "i", "o", "n">>,
                     <<"s", "t", "a", "r", "t">>,
                     <<"b", "e", "g", "i", "n", "n", "i", "n", "g">>,
                     <<"l", "a", "u", "n", "c", "h">> >>],
    \* "birth": ["creation", "start", "beginning", "launch"]
    [generic_term |-> <<"b", "i", "r", "t", "h">>,
     bi_terms |-> << <<"c", "r", "e", "a", "t", "i", "o", "n">>,
                     <<"s", "t", "a", "r", "t">>,
                     <<"b", "e", "g", "i", "n", "n", "i", "n", "g">>,
                     <<"l", "a", "u", "n", "c", "h">> >>],
    \* "born": ["created", "started", "launched", "established"]
    [generic_term |-> <<"b", "o", "r", "n">>,
     bi_terms |-> << <<"c", "r", "e", "a", "t", "e", "d">>,
                     <<"s", "t", "a", "r", "t", "e", "d">>,
                     <<"l", "a", "u", "n", "c", "h", "e", "d">>,
                     <<"e", "s", "t", "a", "b", "l", "i", "s", "h", "e", "d">> >>],
    \* "acting": ["temporary", "interim", "provisional", "acting"]
    [generic_term |-> <<"a", "c", "t", "i", "n", "g">>,
     bi_terms |-> << <<"t", "e", "m", "p", "o", "r", "a", "r", "y">>,
                     <<"i", "n", "t", "e", "r", "i", "m">>,
                     <<"p", "r", "o", "v", "i", "s", "i", "o", "n", "a", "l">>,
                     <<"a", "c", "t", "i", "n", "g">> >>],
    \* "temporary": ["temporary", "interim", "provisional", "acting"]
    [generic_term |-> <<"t", "e", "m", "p", "o", "r", "a", "r", "y">>,
     bi_terms |-> << <<"t", "e", "m", "p", "o", "r", "a", "r", "y">>,
                     <<"i", "n", "t", "e", "r", "i", "m">>,
                     <<"p", "r", "o", "v", "i", "s", "i", "o", "n", "a", "l">>,
                     <<"a", "c", "t", "i", "n", "g">> >>],
    \* "permanent": ["permanent", "fixed", "stable", "established"]
    [generic_term |-> <<"p", "e", "r", "m", "a", "n", "e", "n", "t">>,
     bi_terms |-> << <<"p", "e", "r", "m", "a", "n", "e", "n", "t">>,
                     <<"f", "i", "x", "e", "d">>,
                     <<"s", "t", "a", "b", "l", "e">>,
                     <<"e", "s", "t", "a", "b", "l", "i", "s", "h", "e", "d">> >>],
    \* "public": ["public", "open", "accessible", "available"]
    [generic_term |-> <<"p", "u", "b", "l", "i", "c">>,
     bi_terms |-> << <<"p", "u", "b", "l", "i", "c">>,
                     <<"o", "p", "e", "n">>,
                     <<"a", "c", "c", "e", "s", "s", "i", "b", "l", "e">>,
                     <<"a", "v", "a", "i", "l", "a", "b", "l", "e">> >>],
    \* "private": ["private", "restricted", "exclusive", "limited"]
    [generic_term |-> <<"p", "r", "i", "v", "a", "t", "e">>,
     bi_terms |-> << <<"p", "r", "i", "v", "a", "t", "e">>,
                     <<"r", "e", "s", "t", "r", "i", "c", "t", "e", "d">>,
                     <<"e", "x", "c", "l", "u", "s", "i", "v", "e">>,
                     <<"l", "i", "m", "i", "t", "e", "d">> >>],
    \* "scholarship": ["premium", "preferred", "priority", "special"]
    [generic_term |-> <<"s", "c", "h", "o", "l", "a", "r", "s", "h", "i", "p">>,
     bi_terms |-> << <<"p", "r", "e", "m", "i", "u", "m">>,
                     <<"p", "r", "e", "f", "e", "r", "r", "e", "d">>,
                     <<"p", "r", "i", "o", "r", "i", "t", "y">>,
                     <<"s", "p", "e", "c", "i", "a", "l">> >>],
    \* "tryout": ["test", "trial", "evaluation", "assessment"]
    [generic_term |-> <<"t", "r", "y", "o", "u", "t">>,
     bi_terms |-> << <<"t", "e", "s", "t">>,
                     <<"t", "r", "i", "a", "l">>,
                     <<"e", "v", "a", "l", "u", "a", "t", "i", "o", "n">>,
                     <<"a", "s", "s", "e", "s", "s", "m", "e", "n", "t">> >>],
    \* "decision": ["result", "outcome", "status", "state"]
    [generic_term |-> <<"d", "e", "c", "i", "s", "i", "o", "n">>,
     bi_terms |-> << <<"r", "e", "s", "u", "l", "t">>,
                     <<"o", "u", "t", "c", "o", "m", "e">>,
                     <<"s", "t", "a", "t", "u", "s">>,
                     <<"s", "t", "a", "t", "e">> >>],
    \* "position": ["role", "function", "position", "category"]
    [generic_term |-> <<"p", "o", "s", "i", "t", "i", "o", "n">>,
     bi_terms |-> << <<"r", "o", "l", "e">>,
                     <<"f", "u", "n", "c", "t", "i", "o", "n">>,
                     <<"p", "o", "s", "i", "t", "i", "o", "n">>,
                     <<"c", "a", "t", "e", "g", "o", "r", "y">> >>],
    \* "striker": ["primary", "main", "key", "important"]
    [generic_term |-> <<"s", "t", "r", "i", "k", "e", "r">>,
     bi_terms |-> << <<"p", "r", "i", "m", "a", "r", "y">>,
                     <<"m", "a", "i", "n">>,
                     <<"k", "e", "y">>,
                     <<"i", "m", "p", "o", "r", "t", "a", "n", "t">> >>],
    \* "goalkeeper": ["secondary", "support", "backup", "auxiliary"]
    [generic_term |-> <<"g", "o", "a", "l", "k", "e", "e", "p", "e", "r">>,
     bi_terms |-> << <<"s", "e", "c", "o", "n", "d", "a", "r", "y">>,
                     <<"s", "u", "p", "p", "o", "r", "t">>,
                     <<"b", "a", "c", "k", "u", "p">>,
                     <<"a", "u", "x", "i", "l", "i", "a", "r", "y">> >>],
    \* "defender": ["secondary", "support", "backup", "auxiliary"]
    [generic_term |-> <<"d", "e", "f", "e", "n", "d", "e", "r">>,
     bi_terms |-> << <<"s", "e", "c", "o", "n", "d", "a", "r", "y">>,
                     <<"s", "u", "p", "p", "o", "r", "t">>,
                     <<"b", "a", "c", "k", "u", "p">>,
                     <<"a", "u", "x", "i", "l", "i", "a", "r", "y">> >>],
    \* "midfielder": ["secondary", "support", "backup", "auxiliary"]
    [generic_term |-> <<"m", "i", "d", "f", "i", "e", "l", "d", "e", "r">>,
     bi_terms |-> << <<"s", "e", "c", "o", "n", "d", "a", "r", "y">>,
                     <<"s", "u", "p", "p", "o", "r", "t">>,
                     <<"b", "a", "c", "k", "u", "p">>,
                     <<"a", "u", "x", "i", "l", "i", "a", "r", "y">> >>],
    \* "forward": ["primary", "main", "key", "important"]
    [generic_term |-> <<"f", "o", "r", "w", "a", "r", "d">>,
     bi_terms |-> << <<"p", "r", "i", "m", "a", "r", "y">>,
                     <<"m", "a", "i", "n">>,
                     <<"k", "e", "y">>,
                     <<"i", "m", "p", "o", "r", "t", "a", "n", "t">> >>],
    \* "coach": ["manager", "leader", "supervisor", "controller"]
    [generic_term |-> <<"c", "o", "a", "c", "h">>,
     bi_terms |-> << <<"m", "a", "n", "a", "g", "e", "r">>,
                     <<"l", "e", "a", "d", "e", "r">>,
                     <<"s", "u", "p", "e", "r", "v", "i", "s", "o", "r">>,
                     <<"c", "o", "n", "t", "r", "o", "l", "l", "e", "r">> >>],
    \* "team": ["group", "team", "unit", "collective"]
    [generic_term |-> <<"t", "e", "a", "m">>,
     bi_terms |-> << <<"g", "r", "o", "u", "p">>,
                     <<"t", "e", "a", "m">>,
                     <<"u", "n", "i", "t">>,
                     <<"c", "o", "l", "l", "e", "c", "t", "i", "v", "e">> >>],
    \* "league": ["category", "group", "class", "division"]
    [generic_term |-> <<"l", "e", "a", "g", "u", "e">>,
     bi_terms |-> << <<"c", "a", "t", "e", "g", "o", "r", "y">>,
                     <<"g", "r", "o", "u", "p">>,
                     <<"c", "l", "a", "s", "s">>,
                     <<"d", "i", "v", "i", "s", "i", "o", "n">> >>],
    \* "season": ["period", "timeframe", "duration", "cycle"]
    [generic_term |-> <<"s", "e", "a", "s", "o", "n">>,
     bi_terms |-> << <<"p", "e", "r", "i", "o", "d">>,
                     <<"t", "i", "m", "e", "f", "r", "a", "m", "e">>,
                     <<"d", "u", "r", "a", "t", "i", "o", "n">>,
                     <<"c", "y", "c", "l", "e">> >>],
    \* "match": ["event", "activity", "session", "engagement"]
    [generic_term |-> <<"m", "a", "t", "c", "h">>,
     bi_terms |-> << <<"e", "v", "e", "n", "t">>,
                     <<"a", "c", "t", "i", "v", "i", "t", "y">>,
                     <<"s", "e", "s", "s", "i", "o", "n">>,
                     <<"e", "n", "g", "a", "g", "e", "m", "e", "n", "t">> >>],
    \* "game": ["event", "activity", "session", "engagement"]
    [generic_term |-> <<"g", "a", "m", "e">>,
     bi_terms |-> << <<"e", "v", "e", "n", "t">>,
                     <<"a", "c", "t", "i", "v", "i", "t", "y">>,
                     <<"s", "e", "s", "s", "i", "o", "n">>,
                     <<"e", "n", "g", "a", "g", "e", "m", "e", "n", "t">> >>],
    \* "tournament": ["event", "activity", "session", "engagement"]
    [generic_term |-> <<"t", "o", "u", "r", "n", "a", "m", "e", "n", "t">>,
     bi_terms |-> << <<"e", "v", "e", "n", "t">>,
                     <<"a", "c", "t", "i", "v", "i", "t", "y">>,
                     <<"s", "e", "s", "s", "i", "o", "n">>,
                     <<"e", "n", "g", "a", "g", "e", "m", "e", "n", "t">> >>],
    \* "competition": ["event", "activity", "session", "engagement"]
    [generic_term |-> <<"c", "o", "m", "p", "e", "t", "i", "t", "i", "o", "n">>,
     bi_terms |-> << <<"e", "v", "e", "n", "t">>,
                     <<"a", "c", "t", "i", "v", "i", "t", "y">>,
                     <<"s", "e", "s", "s", "i", "o", "n">>,
                     <<"e", "n", "g", "a", "g", "e", "m", "e", "n", "t">> >>],
    \* "championship": ["event", "activity", "session", "engagement"]
    [generic_term |-> <<"c", "h", "a", "m", "p", "i", "o", "n", "s", "h", "i", "p">>,
     bi_terms |-> << <<"e", "v", "e", "n", "t">>,
                     <<"a", "c", "t", "i", "v", "i", "t", "y">>,
                     <<"s", "e", "s", "s", "i", "o", "n">>,
                     <<"e", "n", "g", "a", "g", "e", "m", "e", "n", "t">> >>],
    \* "winner": ["winner", "leader", "top", "best"]
    [generic_term |-> <<"w", "i", "n", "n", "e", "r">>,
     bi_terms |-> << <<"w", "i", "n", "n", "e", "r">>,
                     <<"l", "e", "a", "d", "e", "r">>,
                     <<"t", "o", "p">>,
                     <<"b", "e", "s", "t">> >>],
    \* "loser": ["loser", "bottom", "worst", "least"]
    [generic_term |-> <<"l", "o", "s", "e", "r">>,
     bi_terms |-> << <<"l", "o", "s", "e", "r">>,
                     <<"b", "o", "t", "t", "o", "m">>,
                     <<"w", "o", "r", "s", "t">>,
                     <<"l", "e", "a", "s", "t">> >>],
    \* "score": ["score", "rating", "performance", "result"]
    [generic_term |-> <<"s", "c", "o", "r", "e">>,
     bi_terms |-> << <<"s", "c", "o", "r", "e">>,
                     <<"r", "a", "t", "i", "n", "g">>,
                     <<"p", "e", "r", "f", "o", "r", "m", "a", "n", "c", "e">>,
                     <<"r", "e", "s", "u", "l", "t">> >>],
    \* "goal": ["goal", "target", "objective", "aim"]
    [generic_term |-> <<"g", "o", "a", "l">>,
     bi_terms |-> << <<"g", "o", "a", "l">>,
                     <<"t", "a", "r", "g", "e", "t">>,
                     <<"o", "b", "j", "e", "c", "t", "i", "v", "e">>,
                     <<"a", "i", "m">> >>],
    \* "assist": ["assist", "support", "help", "aid"]
    [generic_term |-> <<"a", "s", "s", "i", "s", "t">>,
     bi_terms |-> << <<"a", "s", "s", "i", "s", "t">>,
                     <<"s", "u", "p", "p", "o", "r", "t">>,
                     <<"h", "e", "l", "p">>,
                     <<"a", "i", "d">> >>],
    \* "red_card": ["penalty", "violation", "issue", "problem"]
    [generic_term |-> <<"r", "e", "d", "_", "c", "a", "r", "d">>,
     bi_terms |-> << <<"p", "e", "n", "a", "l", "t", "y">>,
                     <<"v", "i", "o", "l", "a", "t", "i", "o", "n">>,
                     <<"i", "s", "s", "u", "e">>,
                     <<"p", "r", "o", "b", "l", "e", "m">> >>],
    \* "yellow_card": ["warning", "caution", "alert", "notice"]
    [generic_term |-> <<"y", "e", "l", "l", "o", "w", "_", "c", "a", "r", "d">>,
     bi_terms |-> << <<"w", "a", "r", "n", "i", "n", "g">>,
                     <<"c", "a", "u", "t", "i", "o", "n">>,
                     <<"a", "l", "e", "r", "t">>,
                     <<"n", "o", "t", "i", "c", "e">> >>],
    \* "foul": ["violation", "penalty", "issue", "problem"]
    [generic_term |-> <<"f", "o", "u", "l">>,
     bi_terms |-> << <<"v", "i", "o", "l", "a", "t", "i", "o", "n">>,
                     <<"p", "e", "n", "a", "l", "t", "y">>,
                     <<"i", "s", "s", "u", "e">>,
                     <<"p", "r", "o", "b", "l", "e", "m">> >>],
    \* "corner": ["corner", "edge", "boundary", "limit"]
    [generic_term |-> <<"c", "o", "r", "n", "e", "r">>,
     bi_terms |-> << <<"c", "o", "r", "n", "e", "r">>,
                     <<"e", "d", "g", "e">>,
                     <<"b", "o", "u", "n", "d", "a", "r", "y">>,
                     <<"l", "i", "m", "i", "t">> >>],
    \* "penalty": ["penalty", "violation", "issue", "problem"]
    [generic_term |-> <<"p", "e", "n", "a", "l", "t", "y">>,
     bi_terms |-> << <<"p", "e", "n", "a", "l", "t", "y">>,
                     <<"v", "i", "o", "l", "a", "t", "i", "o", "n">>,
                     <<"i", "s", "s", "u", "e">>,
                     <<"p", "r", "o", "b", "l", "e", "m">> >>],
    \* "substitution": ["change", "replacement", "switch", "update"]
    [generic_term |-> <<"s", "u", "b", "s", "t", "i", "t", "u", "t", "i", "o", "n">>,
     bi_terms |-> << <<"c", "h", "a", "n", "g", "e">>,
                     <<"r", "e", "p", "l", "a", "c", "e", "m", "e", "n", "t">>,
                     <<"s", "w", "i", "t", "c", "h">>,
                     <<"u", "p", "d", "a", "t", "e">> >>],
    \* "injury": ["issue", "problem", "disruption", "interruption"]
    [generic_term |-> <<"i", "n", "j", "u", "r", "y">>,
     bi_terms |-> << <<"i", "s", "s", "u", "e">>,
                     <<"p", "r", "o", "b", "l", "e", "m">>,
                     <<"d", "i", "s", "r", "u", "p", "t", "i", "o", "n">>,
                     <<"i", "n", "t", "e", "r", "r", "u", "p", "t", "i", "o", "n">> >>],
    \* "suspension": ["suspension", "pause", "stop", "halt"]
    [generic_term |-> <<"s", "u", "s", "p", "e", "n", "s", "i", "o", "n">>,
     bi_terms |-> << <<"s", "u", "s", "p", "e", "n", "s", "i", "o", "n">>,
                     <<"p", "a", "u", "s", "e">>,
                     <<"s", "t", "o", "p">>,
                     <<"h", "a", "l", "t">> >>],
    \* "transfer": ["transfer", "move", "change", "shift"]
    [generic_term |-> <<"t", "r", "a", "n", "s", "f", "e", "r">>,
     bi_terms |-> << <<"t", "r", "a", "n", "s", "f", "e", "r">>,
                     <<"m", "o", "v", "e">>,
                     <<"c", "h", "a", "n", "g", "e">>,
                     <<"s", "h", "i", "f", "t">> >>],
    \* "contract": ["contract", "agreement", "deal", "arrangement"]
    [generic_term |-> <<"c", "o", "n", "t", "r", "a", "c", "t">>,
     bi_terms |-> << <<"c", "o", "n", "t", "r", "a", "c", "t">>,
                     <<"a", "g", "r", "e", "e", "m", "e", "n", "t">>,
                     <<"d", "e", "a", "l">>,
                     <<"a", "r", "r", "a", "n", "g", "e", "m", "e", "n", "t">> >>],
    \* "salary": ["salary", "payment", "compensation", "reward"]
    [generic_term |-> <<"s", "a", "l", "a", "r", "y">>,
     bi_terms |-> << <<"s", "a", "l", "a", "r", "y">>,
                     <<"p", "a", "y", "m", "e", "n", "t">>,
                     <<"c", "o", "m", "p", "e", "n", "s", "a", "t", "i", "o", "n">>,
                     <<"r", "e", "w", "a", "r", "d">> >>],
    \* "bonus": ["bonus", "reward", "incentive", "benefit"]
    [generic_term |-> <<"b", "o", "n", "u", "s">>,
     bi_terms |-> << <<"b", "o", "n", "u", "s">>,
                     <<"r", "e", "w", "a", "r", "d">>,
                     <<"i", "n", "c", "e", "n", "t", "i", "v", "e">>,
                     <<"b", "e", "n", "e", "f", "i", "t">> >>],
    \* "commission": ["commission", "fee", "charge", "cost"]
    [generic_term |-> <<"c", "o", "m", "m", "i", "s", "s", "i", "o", "n">>,
     bi_terms |-> << <<"c", "o", "m", "m", "i", "s", "s", "i", "o", "n">>,
                     <<"f", "e", "e">>,
                     <<"c", "h", "a", "r", "g", "e">>,
                     <<"c", "o", "s", "t">> >>],
    \* "tax": ["tax", "fee", "charge", "cost"]
    [generic_term |-> <<"t", "a", "x">>,
     bi_terms |-> << <<"t", "a", "x">>,
                     <<"f", "e", "e">>,
                     <<"c", "h", "a", "r", "g", "e">>,
                     <<"c", "o", "s", "t">> >>],
    \* "insurance": ["insurance", "protection", "coverage", "safety"]
    [generic_term |-> <<"i", "n", "s", "u", "r", "a", "n", "c", "e">>,
     bi_terms |-> << <<"i", "n", "s", "u", "r", "a", "n", "c", "e">>,
                     <<"p", "r", "o", "t", "e", "c", "t", "i", "o", "n">>,
                     <<"c", "o", "v", "e", "r", "a", "g", "e">>,
                     <<"s", "a", "f", "e", "t", "y">> >>],
    \* "medical": ["medical", "health", "care", "treatment"]
    [generic_term |-> <<"m", "e", "d", "i", "c", "a", "l">>,
     bi_terms |-> << <<"m", "e", "d", "i", "c", "a", "l">>,
                     <<"h", "e", "a", "l", "t", "h">>,
                     <<"c", "a", "r", "e">>,
                     <<"t", "r", "e", "a", "t", "m", "e", "n", "t">> >>],
    \* "physical": ["physical", "health", "fitness", "condition"]
    [generic_term |-> <<"p", "h", "y", "s", "i", "c", "a", "l">>,
     bi_terms |-> << <<"p", "h", "y", "s", "i", "c", "a", "l">>,
                     <<"h", "e", "a", "l", "t", "h">>,
                     <<"f", "i", "t", "n", "e", "s", "s">>,
                     <<"c", "o", "n", "d", "i", "t", "i", "o", "n">> >>],
    \* "mental": ["mental", "psychological", "emotional", "cognitive"]
    [generic_term |-> <<"m", "e", "n", "t", "a", "l">>,
     bi_terms |-> << <<"m", "e", "n", "t", "a", "l">>,
                     <<"p", "s", "y", "c", "h", "o", "l", "o", "g", "i", "c", "a", "l">>,
                     <<"e", "m", "o", "t", "i", "o", "n", "a", "l">>,
                     <<"c", "o", "g", "n", "i", "t", "i", "v", "e">> >>],
    \* "technical": ["technical", "skill", "ability", "capability"]
    [generic_term |-> <<"t", "e", "c", "h", "n", "i", "c", "a", "l">>,
     bi_terms |-> << <<"t", "e", "c", "h", "n", "i", "c", "a", "l">>,
                     <<"s", "k", "i", "l", "l">>,
                     <<"a", "b", "i", "l", "i", "t", "y">>,
                     <<"c", "a", "p", "a", "b", "i", "l", "i", "t", "y">> >>],
    \* "tactical": ["tactical", "strategic", "planning", "approach"]
    [generic_term |-> <<"t", "a", "c", "t", "i", "c", "a", "l">>,
     bi_terms |-> << <<"t", "a", "c", "t", "i", "c", "a", "l">>,
                     <<"s", "t", "r", "a", "t", "e", "g", "i", "c">>,
                     <<"p", "l", "a", "n", "n", "i", "n", "g">>,
                     <<"a", "p", "p", "r", "o", "a", "c", "h">> >>]
>>

\* the elements of a sequence
Range(f) == {f[x] : x \in DOMAIN f}

\* pattern.sub(bi_term, s) with the match tied to the case of the text
SubIgnoreCase_CaseSensitive(s, generic_term, bi_term) ==
    ReplaceFrom(s, s, generic_term, bi_term, 1)

\* re.compile(re.escape(generic_term), re.IGNORECASE).sub(bi_term, s)
SubIgnoreCase(s, generic_term, bi_term) ==
    ReplaceFrom(s, Lower(s), Lower(generic_term), bi_term, 1)

\* the entries of the table that pass "if generic_term in question_lower", in the
\* table's order (the test is on the question as given, not on the text so far)
MatchingEntries(question_lower) ==
    SelectSeq(BI_ENTITY_MAPPINGS, LAMBDA e : Contains(question_lower, e.generic_term))

\* the loop body for each of these entries in turn: bi_term = bi_terms[0], and every
\* match of generic_term in converted_question becomes bi_term
RECURSIVE SubstituteEach(_, _)
SubstituteEach(converted, entries) ==
    IF entries = <<>> THEN converted
    ELSE SubstituteEach(
            SubIgnoreCase(converted, entries[1].generic_term, entries[1].bi_terms[1]),
            Tail(entries))

\* "for generic_term, bi_terms in BI_ENTITY_MAPPINGS.items()", from
\* converted_question = question
ApplyEntityMappings(q) == SubstituteEach(q, MatchingEntries(Lower(q)))

\* [term for terms in BI_ENTITY_MAPPINGS.values() for term in terms]
bi_terms_flat == UNION {Range(BI_ENTITY_MAPPINGS[n].bi_terms) : n \in DOMAIN BI_ENTITY_MAPPINGS}

\* any(bi_term in converted_question.lower() for bi_term in bi_terms_flat)
HasBITerm(s) == \E bi_term \in bi_terms_flat : Contains(Lower(s), bi_term)

\* the literals of the second pass
\* "how many", "How many users"
HowManyLower == <<"h", "o", "w", " ", "m", "a", "n", "y">>
HowManyUsers == <<"H", "o", "w", " ", "m", "a", "n", "y", " ", "u", "s", "e", "r", "s">>
\* "list", "List", "List all campaigns"
ListLower == <<"l", "i", "s", "t">>
ListCapital == <<"L", "i", "s", "t">>
ListAllCampaigns == <<"L", "i", "s", "t", " ", "a", "l", "l", " ", "c", "a", "m", "p", "a", "i", "g", "n", "s">>
\* "what are", "What are", "What are all the"
WhatAreLower == <<"w", "h", "a", "t", " ", "a", "r", "e">>
WhatAreCapital == <<"W", "h", "a", "t", " ", "a", "r", "e">>
WhatAreAllThe == <<"W", "h", "a", "t", " ", "a", "r", "e", " ", "a", "l", "l", " ", "t", "h", "e">>

\* "Add BI context if missing": the if / elif chain on converted_question.lower()
AddBIContext(s) ==
    IF HasBITerm(s) THEN s
    ELSE IF Contains(Lower(s), HowManyLower) THEN Replace(s, HowManyLower, HowManyUsers)
    ELSE IF Contains(Lower(s), ListLower) THEN Replace(s, ListCapital, ListAllCampaigns)
    ELSE IF Contains(Lower(s), WhatAreLower) THEN Replace(s, WhatAreCapital, WhatAreAllThe)
    ELSE s

\* convert_question_to_bi(question)
convert_question_to_bi(q) == AddBIContext(ApplyEntityMappings(q))

\* the questions the model hands to the mapper: an opener, one to MaxWords words
\* joined by " and ", and " are there?"
Openers ==
    {<<"H", "o", "w", " ", "m", "a", "n", "y", " ">>,
     <<"h", "o", "w", " ", "m", "a", "n", "y", " ">>,
     <<"L", "i", "s", "t", " ", "t", "h", "e", " ">>,
     <<"l", "i", "s", "t", " ", "t", "h", "e", " ">>,
     <<"W", "h", "a", "t", " ", "a", "r", "e", " ", "t", "h", "e", " ">>,
     <<"S", "h", "o", "w", " ", "t", "h", "e", " ">>}
QuestionWords ==
    {<<"d", "e", "p", "a", "r", "t", "m", "e", "n", "t", "s">>,
     <<"D", "e", "p", "a", "r", "t", "m", "e", "n", "t", "s">>,
     <<"g", "a", "m", "e", "s">>,
     <<"s", "i", "n", "g", "e", "r", "s">>,
     <<"s", "c", "h", "o", "l", "a", "r", "s", "h", "i", "p", "s">>,
     <<"e", "n", "r", "o", "l", "l", "m", "e", "n", "t">>}
And == <<" ", "a", "n", "d", " ">>
AreThere == <<" ", "a", "r", "e", " ", "t", "h", "e", "r", "e", "?">>

RECURSIVE JoinWords(_)
JoinWords(ws) ==
    IF Len(ws) = 1 THEN ws[1] ELSE ws[1] \o And \o JoinWords(Tail(ws))

Questions ==
    {o \o JoinWords(ws) \o AreThere :
        o \in Openers, ws \in UNION {[1..m -> QuestionWords] : m \in 1..MaxWords}}

\* convert_question_to_bi(question) is called
InitMapper ==
    /\ raw_question \in Questions
    /\ converted_question = <<>>
    /\ bi_question = <<>>
    /\ mpc = "called"

\* "Apply entity mappings": the loop over the table has run
ApplyMappings ==
    /\ mpc = "called"
    /\ converted_question' = ApplyEntityMappings(raw_question)
    /\ mpc' = "mapped"
    /\ UNCHANGED <<procVars, normVars, convVars, anaVars, promptVars, raw_question,
                   bi_question>>

\* "Add BI context if missing", then return converted_question
ReturnConverted ==
    /\ mpc = "mapped"
    /\ bi_question' = AddBIContext(converted_question)
    /\ mpc' = "returned"
    /\ UNCHANGED <<procVars, normVars, convVars, anaVars, promptVars, raw_question,
                   converted_question>>

NextMapper ==
    \/ ApplyMappings
    \/ ReturnConverted

InitMapping == InitMapper /\ ProcIdle /\ NormIdle /\ ConvIdle /\ AnaIdle /\ PromptIdle

SpecMapper == InitMapping /\ [][NextMapper]_vars

----------------------------------------------------------------------------
(* convert_training_example and main of convert_to_bi_training_data.py *)

\* for i in range(5): the sample conversions printed at the end of main
SampleCount == 5

\* a dict lookup of a missing key, a list index out of range
KeyError == [error |-> "KeyError"]
IndexError == [error |-> "IndexError"]

\* "How many departments are there?"
HowManyDepartments ==
    <<"H", "o", "w", " ", "m", "a", "n", "y", " ", "d", "e", "p", "a", "r", "t", "m", "e", "n", "t", "s", " ", "a", "r", "e", " ", "t", "h", "e", "r", "e", "?">>

\* "How many publishers are there?"
HowManyPublishers ==
    <<"H", "o", "w", " ", "m", "a", "n", "y", " ", "p", "u", "b", "l", "i", "s", "h", "e", "r", "s", " ", "a", "r", "e", " ", "t", "h", "e", "r", "e", "?">>

\* "how many singers are there?"
HowManySingersLower ==
    <<"h", "o", "w", " ", "m", "a", "n", "y", " ", "s", "i", "n", "g", "e", "r", "s", " ", "a", "r", "e", " ", "t", "h", "e", "r", "e", "?">>

\* the questions of the corpora the model hands to the converter
ConverterQuestions == {HowManyDepartments, HowManySingersLower}

\* convert_question_to_bi on these questions, computed once
BIQuestionOf == [q \in ConverterQuestions |-> convert_question_to_bi(q)]

\* convert_output_to_bi(output) on a record nothing else refers to: the returned value
NormalizedValue(output) ==
    LET h == IF "discovery_results" \in DOMAIN output
             THEN ("output" :> [output EXCEPT !["discovery_results"] = Ref("results")])
                    @@ ("results" :> output["discovery_results"])
             ELSE ("output" :> output)
    IN  Value(convert_output_to_bi(h, "output", "converted"), "converted")

\* convert_training_example(example): the new example, or the KeyError of
\* example["input"] / example["output"]
convert_training_example(example) ==
    IF "input" \notin DOMAIN example \/ "output" \notin DOMAIN example THEN KeyError
    ELSE [input |-> BIQuestionOf[example.input],
          output |-> NormalizedValue(example.output)]

\* the examples of the corpora: two well-formed ones and one without its output
CountedExample ==
    [input |-> HowManyDepartments,
     output |-> [intent |-> "intents_discovery",
                 discovery_results |->
                    StepsOf(1, <<[step |-> 1, list |-> "measures", item |-> [name |-> "Count"]],
                                 [step |-> 1, list |-> "unmatched_intents",
                                  item |-> [phrase |-> "departments"]]>>, FALSE)]]
BareExample ==
    [input |-> HowManySingersLower,
     output |-> [intent |-> "intents_discovery", discovery_results |-> <<>>]]
TruncatedExample == [input |-> HowManyDepartments]
ConverterExamples == {CountedExample, BareExample, TruncatedExample}

\* main: json.load(kaggle_spider_training_data.json), bi_training_data = []
InitConverter ==
    /\ training_data \in SeqsUpTo(ConverterExamples, MaxCorpus)
    /\ bi_training_data = <<>>
    /\ output_file = <<>>
    /\ cerror = None
    /\ cpc = "loop"

\* the next example, the one enumerate is at
NextExample == training_data[Len(bi_training_data) + 1]

\* the converted examples are put in front of the list
ConvertExample_Prepend ==
    /\ cpc = "loop"
    /\ Len(bi_training_data) < Len(training_data)
    /\ convert_training_example(NextExample) # KeyError
    /\ bi_training_data' = <<convert_training_example(NextExample)>> \o bi_training_data
    /\ UNCHANGED <<procVars, normVars, mapVars, anaVars, promptVars, cpc, training_data,
                   output_file, cerror>>

\* for i, example in enumerate(training_data): convert_training_example, append
ConvertExample ==
    /\ cpc = "loop"
    /\ Len(bi_training_data) < Len(training_data)
    /\ convert_training_example(NextExample) # KeyError
    /\ bi_training_data' = Append(bi_training_data, convert_training_example(NextExample))
    /\ UNCHANGED <<procVars, normVars, mapVars, anaVars, promptVars, cpc, training_data,
                   output_file, cerror>>

\* the exception leaves main after writing what was converted so far
ConvertRaises_FlushPartial ==
    /\ cpc = "loop"
    /\ Len(bi_training_data) < Len(training_data)
    /\ convert_training_example(NextExample) = KeyError
    /\ cerror' = KeyError
    /\ output_file' = <<bi_training_data>>
    /\ cpc' = "crashed"
    /\ UNCHANGED <<procVars, normVars, mapVars, anaVars, promptVars, training_data,
                   bi_training_data>>

\* convert_training_example raises: nothing in main catches it
ConvertRaises ==
    /\ cpc = "loop"
    /\ Len(bi_training_data) < Len(training_data)
    /\ convert_training_example(NextExample) = KeyError
    /\ cerror' = KeyError
    /\ cpc' = "crashed"
    /\ UNCHANGED <<procVars, normVars, mapVars, anaVars, promptVars, training_data,
                   bi_training_data, output_file>>

\* after the loop: with open(output_file, "w") as f: json.dump(bi_training_data, f)
SaveConverted ==
    /\ cpc = "loop"
    /\ Len(bi_training_data) = Len(training_data)
    /\ output_file' = <<bi_training_data>>
    /\ cpc' = "saved"
    /\ UNCHANGED <<procVars, normVars, mapVars, anaVars, promptVars, training_data,
                   bi_training_data, cerror>>

\* for i in range(5): training_data[i], bi_training_data[i] are printed
PrintSamples ==
    /\ cpc = "saved"
    /\ Len(training_data) >= SampleCount
    /\ cpc' = "done"
    /\ UNCHANGED <<procVars, normVars, mapVars, anaVars, promptVars, training_data,
                   bi_training_data, output_file, cerror>>

\* training_data[i] with fewer than five examples: IndexError
PrintSamplesRaises ==
    /\ cpc = "saved"
    /\ Len(training_data) < SampleCount
    /\ cerror' = IndexError
    /\ cpc' = "crashed"
    /\ UNCHANGED <<procVars, normVars, mapVars, anaVars, promptVars, training_data,
                   bi_training_data, output_file>>

NextConverter ==
    \/ ConvertExample
    \/ ConvertRaises
    \/ SaveConverted
    \/ PrintSamples
    \/ PrintSamplesRaises

InitConversion == InitConverter /\ ProcIdle /\ NormIdle /\ MapIdle /\ AnaIdle /\ PromptIdle

SpecConverter == InitConversion /\ [][NextConverter]_vars

----------------------------------------------------------------------------
(* analyze_bi_training_data and print_analysis_report *)

\* a division by zero
ZeroDivisionError == [error |-> "ZeroDivisionError"]

\* a / b as Python computes it for counts a and b > 0: the quotient, kept as the
\* pair of its terms
Ratio(a, b) == <<a, b>>

\* r >= a / b and r <= a / b, for a ratio r and a decimal literal a / b
AtLeast(r, a, b) == r[1] * b >= a * r[2]
AtMost(r, a, b) == r[1] * b <= a * r[2]

\* the number of elements of a sequence that satisfy Test
CountIf(seq, Test(_)) == Cardinality({k \in DOMAIN seq : Test(seq[k])})

\* result.get("step_id", "unknown")
StepId(result) == IF "step_id" \in DOMAIN result THEN result["step_id"] ELSE "unknown"

\* the discovery results the first loop walks: all steps of all examples whose
\* output has discovery_results, as <<example, step>> positions
AllSteps(corpus) ==
    UNION {{<<k, x>> : x \in 1..Len(corpus[k].output["discovery_results"])} :
            k \in {y \in DOMAIN corpus : "discovery_results" \in DOMAIN corpus[y].output}}

\* step_counts[id] after the loop: step_counts[step_id] += 1 for each such step
step_counts(corpus, id) ==
    Cardinality({p \in AllSteps(corpus) :
                    StepId(corpus[p[1]].output["discovery_results"][p[2]]) = id})

\* analysis["complexity_distribution"]; the ratio divides by len(bi_data)
ComplexityDistribution(corpus) ==
    [simple_questions |-> step_counts(corpus, "step_1"),
     complex_questions |-> step_counts(corpus, "step_2") + step_counts(corpus, "step_3"),
     multi_step_questions |-> step_counts(corpus, "step_2"),
     three_step_questions |-> step_counts(corpus, "step_3"),
     complexity_ratio |->
        Ratio(step_counts(corpus, "step_2") + step_counts(corpus, "step_3"), Len(corpus))]

\* bi_terms of the coverage analysis
CoverageTerms ==
    <<<<"p", "u", "b", "l", "i", "s", "h", "e", "r", "s">>,
      <<"a", "d", "v", "e", "r", "t", "i", "s", "e", "r", "s">>,
      <<"b", "i", "d", "d", "e", "r", "s">>,
      <<"c", "a", "m", "p", "a", "i", "g", "n", "s">>,
      <<"u", "s", "e", "r", "s">>,
      <<"c", "u", "s", "t", "o", "m", "e", "r", "s">>,
      <<"v", "i", "e", "w", "e", "r", "s">>,
      <<"c", "l", "i", "c", "k", "s">>,
      <<"r", "e", "v", "e", "n", "u", "e">>,
      <<"s", "p", "e", "n", "d">>,
      <<"c", "o", "s", "t">>,
      <<"b", "u", "d", "g", "e", "t">>,
      <<"w", "e", "b", "s", "i", "t", "e", "s">>,
      <<"a", "p", "p", "s">>,
      <<"c", "h", "a", "n", "n", "e", "l", "s">>,
      <<"s", "i", "t", "e", "s">>,
      <<"v", "i", "s", "i", "t", "o", "r", "s">>,
      <<"a", "u", "d", "i", "e", "n", "c", "e">>,
      <<"a", "d", "s">>,
      <<"c", "r", "e", "a", "t", "i", "v", "e", "s">>,
      <<"p", "l", "a", "c", "e", "m", "e", "n", "t", "s">>,
      <<"i", "m", "p", "r", "e", "s", "s", "i", "o", "n", "s">>,
      <<"c", "o", "n", "v", "e", "r", "s", "i", "o", "n", "s">>,
      <<"r", "e", "q", "u", "e", "s", "t", "s">>,
      <<"b", "i", "d", "s">>,
      <<"l", "o", "c", "a", "t", "i", "o", "n", "s">>,
      <<"r", "e", "g", "i", "o", "n", "s">>,
      <<"m", "a", "r", "k", "e", "t", "s">>,
      <<"t", "e", "r", "r", "i", "t", "o", "r", "i", "e", "s">>,
      <<"v", "i", "d", "e", "o", "s">>,
      <<"c", "o", "n", "t", "e", "n", "t">>,
      <<"a", "c", "t", "i", "v", "i", "t", "i", "e", "s">>,
      <<"e", "v", "e", "n", "t", "s">>,
      <<"m", "a", "n", "a", "g", "e", "r", "s">>,
      <<"l", "e", "a", "d", "e", "r", "s">>,
      <<"o", "p", "e", "r", "a", "t", "o", "r", "s">>,
      <<"c", "o", "n", "t", "r", "o", "l", "l", "e", "r", "s">>>>

\* term_counts: for each term, the examples whose lower-cased question holds it
TermCount(corpus, term) == CountIf(corpus, LAMBDA example : Contains(Lower(example.input), term))

\* analysis["bi_terms_coverage"]
BITermsCoverage(corpus) ==
    [total_bi_terms_used |->
        Cardinality({x \in DOMAIN CoverageTerms : TermCount(corpus, CoverageTerms[x]) > 0}),
     terms_with_zero_usage |->
        SelectSeq(CoverageTerms, LAMBDA term : TermCount(corpus, term) = 0)]

\* the fifteen patterns, each with the texts one of which must be in the question
PatternTests == <<
    [pattern |-> "how_many",
     any_of |-> {<<"h", "o", "w", " ", "m", "a", "n", "y">>}],
    [pattern |-> "list",
     any_of |-> {<<"l", "i", "s", "t">>}],
    [pattern |-> "what_are",
     any_of |-> {<<"w", "h", "a", "t", " ", "a", "r", "e">>}],
    [pattern |-> "compare",
     any_of |-> {<<"c", "o", "m", "p", "a", "r", "e">>, <<"v", "e", "r", "s", "u", "s">>, <<"v", "s">>}],
    [pattern |-> "top",
     any_of |-> {<<"t", "o", "p">>}],
    [pattern |-> "bottom",
     any_of |-> {<<"b", "o", "t", "t", "o", "m">>, <<"l", "o", "w", "e", "s", "t">>}],
    [pattern |-> "average",
     any_of |-> {<<"a", "v", "e", "r", "a", "g", "e">>}],
    [pattern |-> "maximum",
     any_of |-> {<<"m", "a", "x", "i", "m", "u", "m">>, <<"h", "i", "g", "h", "e", "s", "t">>}],
    [pattern |-> "minimum",
     any_of |-> {<<"m", "i", "n", "i", "m", "u", "m">>, <<"l", "o", "w", "e", "s", "t">>}],
    [pattern |-> "trend",
     any_of |-> {<<"t", "r", "e", "n", "d">>, <<"c", "h", "a", "n", "g", "e">>}],
    [pattern |-> "percentage",
     any_of |-> {<<"p", "e", "r", "c", "e", "n", "t", "a", "g", "e">>, <<"%">>}],
    [pattern |-> "which",
     any_of |-> {<<"w", "h", "i", "c", "h">>}],
    [pattern |-> "show",
     any_of |-> {<<"s", "h", "o", "w">>}],
    [pattern |-> "find",
     any_of |-> {<<"f", "i", "n", "d">>}],
    [pattern |-> "return",
     any_of |-> {<<"r", "e", "t", "u", "r", "n">>}]
>>

\* analysis["question_patterns"]
QuestionPatterns(corpus) ==
    [x \in DOMAIN PatternTests |->
        [pattern |-> PatternTests[x].pattern,
         count |-> CountIf(corpus, LAMBDA example :
                        \E text \in PatternTests[x].any_of :
                            Contains(Lower(example.input), text))]]

\* required_fields
RequiredFields ==
    <<"step_id", "sub_question", "measures", "dimensions", "timegrain", "timeframe",
      "pattern", "segments", "breakdowns", "unmatched_intents">>

\* the issue strings one example adds to output_issues; examples and results count from 0
\* "Example i: Missing intent field", "Example i: Missing discovery_results",
\* "Example i, Result j: Missing <field>"
ExampleIssues(e, output) ==
    IF "intent" \notin DOMAIN output THEN <<[example |-> e, missing |-> "intent"]>>
    ELSE IF "discovery_results" \notin DOMAIN output
    THEN <<[example |-> e, missing |-> "discovery_results"]>>
    ELSE Concat([x \in DOMAIN output["discovery_results"] |->
            LET missing == SelectSeq(RequiredFields,
                                     LAMBDA field :
                                        field \notin DOMAIN output["discovery_results"][x])
            IN  [y \in DOMAIN missing |->
                    [example |-> e, result |-> x - 1, missing |-> missing[y]]]])

\* valid_outputs, counted only for examples none of whose steps lacks a field
ValidOutputs_Strict(corpus) ==
    CountIf(corpus, LAMBDA example :
        /\ "intent" \in DOMAIN example.output
        /\ "discovery_results" \in DOMAIN example.output
        /\ ExampleIssues(0, example.output) = <<>>)

\* valid_outputs: the examples that reach "valid_outputs += 1", past both continue
ValidOutputs(corpus) ==
    CountIf(corpus, LAMBDA example :
        /\ "intent" \in DOMAIN example.output
        /\ "discovery_results" \in DOMAIN example.output)

\* analysis["output_quality"]; the rate divides by len(bi_data)
OutputQuality(corpus) ==
    [valid_outputs |-> ValidOutputs(corpus),
     output_issues |-> Concat([k \in DOMAIN corpus |-> ExampleIssues(k - 1, corpus[k].output)]),
     validity_rate |-> Ratio(ValidOutputs(corpus), Len(corpus))]

\* non_bi_terms
NonBITerms ==
    <<<<"d", "e", "p", "a", "r", "t", "m", "e", "n", "t", "s">>,
      <<"e", "m", "p", "l", "o", "y", "e", "e", "s">>,
      <<"s", "t", "u", "d", "e", "n", "t", "s">>,
      <<"s", "c", "h", "o", "o", "l", "s">>,
      <<"c", "o", "m", "p", "a", "n", "i", "e", "s">>,
      <<"c", "u", "s", "t", "o", "m", "e", "r", "s">>,
      <<"f", "i", "l", "m", "s">>,
      <<"m", "o", "v", "i", "e", "s">>,
      <<"b", "o", "o", "k", "s">>,
      <<"s", "p", "o", "r", "t", "s">>,
      <<"g", "a", "m", "e", "s">>>>

\* "departments"
DepartmentsText == <<"d", "e", "p", "a", "r", "t", "m", "e", "n", "t", "s">>

\* the issue of one example: the first of non_bi_terms in its question, then break
NonBIIssue(example) ==
    LET found == SelectSeq(NonBITerms, LAMBDA term : Contains(Lower(example.input), term))
    IN  IF found = <<>> THEN <<>> ELSE <<[non_bi_term |-> found[1]]>>

\* "departments" in str(bi_data).lower(); the annotations of the model's corpora
\* hold no such text, so it is in a question or nowhere
DepartmentsInStr(corpus) ==
    \E k \in DOMAIN corpus : Contains(Lower(corpus[k].input), DepartmentsText)

\* analysis["issues"]
Issues(corpus) ==
    Concat([k \in DOMAIN corpus |-> NonBIIssue(corpus[k])])
        \o (IF DepartmentsInStr(corpus) THEN <<[inconsistent |-> "departments"]>> ELSE <<>>)

\* the dict analyze_bi_training_data returns
Analysis(corpus) ==
    [total_examples |-> Len(corpus),
     complexity_distribution |-> ComplexityDistribution(corpus),
     bi_terms_coverage |-> BITermsCoverage(corpus),
     question_patterns |-> QuestionPatterns(corpus),
     output_quality |-> OutputQuality(corpus),
     issues |-> Issues(corpus)]

\* "Volume (20 points)"
VolumePoints(a) ==
    IF a.total_examples >= 7000 THEN 20
    ELSE IF a.total_examples >= 5000 THEN 15
    ELSE IF a.total_examples >= 3000 THEN 10
    ELSE 0

\* the complexity bucket with its inner interval open
ComplexityPoints_Open(a) ==
    LET comp_ratio == a.complexity_distribution.complexity_ratio
    IN  IF ~AtMost(comp_ratio, 3, 10) /\ ~AtLeast(comp_ratio, 7, 10) THEN 20
        ELSE IF AtLeast(comp_ratio, 2, 10) /\ AtMost(comp_ratio, 8, 10) THEN 15
        ELSE 10

\* "Complexity distribution (20 points)": 0.3 <= comp_ratio <= 0.7, 0.2 <= ... <= 0.8
ComplexityPoints(a) ==
    LET comp_ratio == a.complexity_distribution.complexity_ratio
    IN  IF AtLeast(comp_ratio, 3, 10) /\ AtMost(comp_ratio, 7, 10) THEN 20
        ELSE IF AtLeast(comp_ratio, 2, 10) /\ AtMost(comp_ratio, 8, 10) THEN 15
        ELSE 10

\* "BI terms coverage (20 points)"
CoveragePoints(a) ==
    LET bi_terms_used == a.bi_terms_coverage.total_bi_terms_used
    IN  IF bi_terms_used >= 20 THEN 20
        ELSE IF bi_terms_used >= 15 THEN 15
        ELSE IF bi_terms_used >= 10 THEN 10
        ELSE 0

\* "Output validity (20 points)": validity_rate >= 0.95, 0.90, 0.80
ValidityPoints(a) ==
    LET validity_rate == a.output_quality.validity_rate
    IN  IF AtLeast(validity_rate, 95, 100) THEN 20
        ELSE IF AtLeast(validity_rate, 90, 100) THEN 15
        ELSE IF AtLeast(validity_rate, 80, 100) THEN 10
        ELSE 0

\* "Issues (20 points)": issue_count = len(analysis['issues'])
IssuePoints(a) ==
    LET issue_count == Len(a.issues)
    IN  IF issue_count = 0 THEN 20
        ELSE IF issue_count <= 10 THEN 15
        ELSE IF issue_count <= 50 THEN 10
        ELSE 5

\* score, after the five "score +=" blocks of print_analysis_report
QualityScore(a) ==
    VolumePoints(a) + ComplexityPoints(a) + CoveragePoints(a) + ValidityPoints(a)
        + IssuePoints(a)

\* a discovery step with every required field
FullStep(id) ==
    [step_id |-> id, sub_question |-> "q", measures |-> <<>>, dimensions |-> <<>>,
     timegrain |-> "None", timeframe |-> "None", pattern |-> "None", segments |-> <<>>,
     breakdowns |-> <<>>, unmatched_intents |-> <<>>]

\* the same step without the fields in gone
StepWithout(id, gone) == [field \in DOMAIN FullStep(id) \ gone |-> FullStep(id)[field]]

Annotation(steps) == [intent |-> "intents_discovery", discovery_results |-> steps]

\* the examples of the corpora the model hands to the analyzer
OneStepExample ==
    [input |-> HowManyPublishers, output |-> Annotation(<<FullStep("step_1")>>)]
TwoStepExample ==
    [input |-> HowManyPublishers,
     output |-> Annotation(<<FullStep("step_1"), FullStep("step_2")>>)]
ThreeStepExample ==
    [input |-> HowManyPublishers,
     output |-> Annotation(<<FullStep("step_1"), FullStep("step_2"), FullStep("step_3")>>)]
NoDimensionsExample ==
    [input |-> HowManyDepartments,
     output |-> Annotation(<<StepWithout("step_1", {"dimensions"})>>)]
SparseSecondStepExample ==
    [input |-> HowManyPublishers,
     output |-> Annotation(<<FullStep("step_1"),
                             StepWithout("step_2", {"dimensions", "pattern"})>>)]
NoIntentExample ==
    [input |-> HowManyDepartments,
     output |-> [discovery_results |-> <<FullStep("step_1")>>]]
NoResultsExample ==
    [input |-> HowManyPublishers, output |-> [intent |-> "intents_discovery"]]
NoStepIdExample ==
    [input |-> HowManyPublishers,
     output |-> Annotation(<<StepWithout("step_1", {"step_id"})>>)]
AnalyzerExamples ==
    {OneStepExample, TwoStepExample, ThreeStepExample, NoDimensionsExample,
     SparseSecondStepExample, NoIntentExample, NoResultsExample, NoStepIdExample}

\* main of the analyzer: json.load(bi_training_data.json)
InitAnalyzer ==
    /\ bi_data \in SeqsUpTo(AnalyzerExamples, MaxExamples)
    /\ analysis = None
    /\ aerror = None
    /\ score = -1
    /\ analysis_file = <<>>
    /\ apc = "loaded"

\* analyze_bi_training_data() runs to its return
AnalyzeData ==
    /\ apc = "loaded"
    /\ Len(bi_data) > 0
    /\ analysis' = Analysis(bi_data)
    /\ apc' = "analyzed"
    /\ UNCHANGED <<procVars, normVars, mapVars, convVars, promptVars, bi_data, aerror,
                   score, analysis_file>>

\* an empty corpus gives ratios of zero and the analysis goes on
AnalyzeRaises_SilentZero ==
    /\ apc = "loaded"
    /\ Len(bi_data) = 0
    /\ analysis' = [Analysis(bi_data) EXCEPT
                        !.complexity_distribution.complexity_ratio = Ratio(0, 0),
                        !.output_quality.validity_rate = Ratio(0, 0)]
    /\ apc' = "analyzed"
    /\ UNCHANGED <<procVars, normVars, mapVars, convVars, promptVars, bi_data, aerror,
                   score, analysis_file>>

\* len(bi_data) == 0: the division of the complexity ratio raises, nothing catches it
AnalyzeRaises ==
    /\ apc = "loaded"
    /\ Len(bi_data) = 0
    /\ aerror' = ZeroDivisionError
    /\ apc' = "crashed"
    /\ UNCHANGED <<procVars, normVars, mapVars, convVars, promptVars, bi_data, analysis,
                   score, analysis_file>>

\* print_analysis_report(analysis): the report, with its quality score
PrintAnalysisReport ==
    /\ apc = "analyzed"
    /\ score' = QualityScore(analysis)
    /\ apc' = "reported"
    /\ UNCHANGED <<procVars, normVars, mapVars, convVars, promptVars, bi_data, analysis,
                   aerror, analysis_file>>

\* json.dump(analysis) to bi_training_data_analysis.json
SaveAnalysis ==
    /\ apc = "reported"
    /\ analysis_file' = <<analysis>>
    /\ apc' = "done"
    /\ UNCHANGED <<procVars, normVars, mapVars, convVars, promptVars, bi_data, analysis,
                   aerror, score>>

NextAnalyzer ==
    \/ AnalyzeData
    \/ AnalyzeRaises
    \/ PrintAnalysisReport
    \/ SaveAnalysis

InitAnalysis == InitAnalyzer /\ ProcIdle /\ NormIdle /\ MapIdle /\ ConvIdle /\ PromptIdle

SpecAnalyzer == InitAnalysis /\ [][NextAnalyzer]_vars

\* print_analysis_report as a function of its argument: the analyses of corpora of
\* the sizes around the score's thresholds, reduced to the entries the score reads
ReportVolumes == {4, 20, 2999, 3000, 4999, 5000, 6999, 7000}
Around(n) == {n - 1, n, n + 1}
ReportComplexCounts(n) ==
    {c \in UNION {Around((n * t) \div 10) : t \in {2, 3, 5, 7, 8}} : c >= 0}
ReportValidCounts(n) ==
    {v \in UNION {Around((n * t) \div 100) : t \in {80, 90, 95}} \cup {n} : v >= 0 /\ v <= n}
ReportTermsUsed == {t \in UNION {Around(10), Around(15), Around(20)} : t <= Len(CoverageTerms)}
ReportIssueCounts(n) == {c \in {0, 1, 10, 11, 50, 51} : c <= n + 1}

ReportedAnalysis(n, complex, valid, used, issue_count) ==
    [total_examples |-> n,
     complexity_distribution |-> [complexity_ratio |-> Ratio(complex, n)],
     bi_terms_coverage |-> [total_bi_terms_used |-> used],
     output_quality |-> [valid_outputs |-> valid, validity_rate |-> Ratio(valid, n)],
     issues |-> [x \in 1..issue_count |-> [non_bi_term |-> DepartmentsText]]]

InitReport ==
    /\ \E n \in ReportVolumes :
          \E complex \in ReportComplexCounts(n), valid \in ReportValidCounts(n),
             used \in ReportTermsUsed, issue_count \in ReportIssueCounts(n) :
                analysis = ReportedAnalysis(n, complex, valid, used, issue_count)
    /\ bi_data = <<>>
    /\ aerror = None
    /\ score = -1
    /\ analysis_file = <<>>
    /\ apc = "analyzed"

NextReport ==
    \/ PrintAnalysisReport
    \/ SaveAnalysis

InitReporting == InitReport /\ ProcIdle /\ NormIdle /\ MapIdle /\ ConvIdle /\ PromptIdle

SpecReport == InitReporting /\ [][NextReport]_vars

----------------------------------------------------------------------------
(* TrainingDataProcessor.build_prompt *)

\* ValueError("Prompt template not loaded")
ValueError == [error |-> "ValueError"]

\* the placeholder "{{ context.current_question }}"
QuestionPlaceholder ==
    <<"{", "{", " ", "c", "o", "n", "t", "e", "x", "t", ".", "c", "u", "r", "r", "e", "n", "t",
    "_", "q", "u", "e", "s", "t", "i", "o", "n", " ", "}", "}">>

\* the placeholder "{{ context.model_files }}"
ModelFilesPlaceholder ==
    <<"{", "{", " ", "c", "o", "n", "t", "e", "x", "t", ".", "m", "o", "d", "e", "l", "_", "f",
    "i", "l", "e", "s", " ", "}", "}">>

\* a placeholder build_prompt does not know, "{{ context.schema }}"
OtherPlaceholder ==
    <<"{", "{", " ", "c", "o", "n", "t", "e", "x", "t", ".", "s", "c", "h", "e", "m", "a", " ",
    "}", "}">>

\* template text without a placeholder
PlainText ==
    <<"Q", "u", "e", "s", "t", "i", "o", "n", ":", " ">>

\* the pieces a prompt template is made of
TemplatePieces == {QuestionPlaceholder, ModelFilesPlaceholder, OtherPlaceholder, PlainText}

\* a question without braces
PlainQuestion ==
    <<"H", "o", "w", " ", "m", "a", "n", "y", " ", "u", "s", "e", "r", "s", "?">>

\* a question that quotes the model-files placeholder
QuestionNamingModelFiles ==
    <<"W", "h", "a", "t", " ", "i", "s", " ", "{", "{", " ", "c", "o", "n", "t", "e", "x", "t",
    ".", "m", "o", "d", "e", "l", "_", "f", "i", "l", "e", "s", " ", "}", "}", "?">>

\* a question that quotes the question placeholder
QuestionNamingQuestion ==
    <<"W", "h", "y", " ", "{", "{", " ", "c", "o", "n", "t", "e", "x", "t", ".", "c", "u", "r",
    "r", "e", "n", "t", "_", "q", "u", "e", "s", "t", "i", "o", "n", " ", "}", "}", "?">>

\* the questions build_prompt is called with
PromptQuestions == {PlainQuestion, QuestionNamingModelFiles, QuestionNamingQuestion}

\* self.context after load_context_files found one file
LoadedContext ==
    <<"[", "s", "c", "h", "e", "m", "a", ".", "j", "s", "o", "n", "]", " ", "{", "}">>

\* self.context: "" when the model directory holds no file, else the files' text
Contexts == {<<>>, LoadedContext}

\* build_prompt past the template test: the question placeholder is replaced first,
\* and the model-files placeholder is then looked for in the result of that
build_prompt(template, q, ctx) ==
    LET with_question == Replace(template, QuestionPlaceholder, q)
    IN  IF Contains(with_question, ModelFilesPlaceholder)
        THEN Replace(with_question, ModelFilesPlaceholder, ctx)
        ELSE with_question

\* a processor with its template (None or "" when none was loaded) and its context,
\* and the question of one call
InitPrompt ==
    /\ ppc = "called"
    /\ template_parts \in SeqsUpTo(TemplatePieces, MaxPieces)
    /\ prompt_template = Concat(template_parts)
    /\ context \in Contexts
    /\ prompt_question \in PromptQuestions
    /\ prompt = <<>>
    /\ perror = None

\* build_prompt with a template: returns the prompt
BuildPrompt ==
    /\ ppc = "called"
    /\ prompt_template # <<>>
    /\ prompt' = build_prompt(prompt_template, prompt_question, context)
    /\ ppc' = "built"
    /\ UNCHANGED <<template_parts, prompt_template, context, prompt_question, perror>>
    /\ UNCHANGED <<procVars, normVars, mapVars, convVars, anaVars>>

\* build_prompt without a template: if not self.prompt_template: raise ValueError
BuildPromptRaises ==
    /\ ppc = "called"
    /\ prompt_template = <<>>
    /\ perror' = ValueError
    /\ ppc' = "crashed"
    /\ UNCHANGED <<template_parts, prompt_template, context, prompt_question, prompt>>
    /\ UNCHANGED <<procVars, normVars, mapVars, convVars, anaVars>>

NextPrompt ==
    \/ BuildPrompt
    \/ BuildPromptRaises

InitPrompting == InitPrompt /\ ProcIdle /\ NormIdle /\ MapIdle /\ ConvIdle /\ AnaIdle

SpecPrompt == InitPrompting /\ [][NextPrompt]_vars

----------------------------------------------------------------------------
(* Properties of the batch processor *)

\* process_question is running or has just ended
InProcessQuestion == pc \in {"pq_for", "pq_create", "pq_end"}

\* the results of the current invocation of process_training_data, in order
RunResults ==
    SubSeq(processed_data, base + 1, Len(processed_data))
        \o (IF pc = "example_for" \/ (InProcessQuestion /\ caller = "batch")
            THEN batch_results ELSE <<>>)

\* the record is the fallback skeleton for question q, field by field
IsFallbackRecord(r, q) ==
    /\ DOMAIN r = {"input", "output"}
    /\ r.input = q
    /\ DOMAIN r.output = {"intent", "discovery_results"}
    /\ r.output.intent = "intents_discovery"
    /\ Len(r.output.discovery_results) = 1
    /\ LET st == r.output.discovery_results[1]
       IN  /\ DOMAIN st = {"step_id", "sub_question", "measures", "dimensions",
                           "timegrain", "timeframe", "pattern", "segments",
                           "breakdowns", "unmatched_intents"}
           /\ st.step_id = "step_1"
           /\ st.sub_question = q
           /\ st.measures = <<>> /\ st.dimensions = <<>> /\ st.segments = <<>>
           /\ st.breakdowns = <<>> /\ st.unmatched_intents = <<>>
           /\ st.timegrain = "None" /\ st.timeframe = "None" /\ st.pattern = "None"

(* C1: process_question never makes more than max_retries completion calls, and
   when the retries are exhausted by a response that does not parse (the last
   allowed attempt fails to parse, or any record is returned without a parsed
   response after all attempts were used) the returned record is exactly the
   fallback skeleton for the question. *)
C1_RetryBoundAndFallback ==
    /\ InProcessQuestion => calls <= max_retries
    /\ (pc = "pq_end" /\ lastOutcome = "parse") =>
            /\ calls = max_retries
            /\ pq_exit = "FALLBACK"
            /\ IsFallbackRecord(pq_result, question)
    /\ (pc = "pq_end" /\ calls = max_retries /\ lastOutcome # "ok" /\ pq_result # None) =>
            IsFallbackRecord(pq_result, question)

\* C1's case: a direct or batch call used all of at least two attempts and fell back
C1_Witness ==
    /\ pc = "pq_end"
    /\ pq_exit = "FALLBACK"
    /\ max_retries >= 2
    /\ calls = max_retries

(* C2: every invocation of process_question ends in SUCCESS, FALLBACK or
   PROPAGATED_ERROR, and a returning one returns a record. *)
C2_ThreeTerminalStates ==
    pc = "pq_end" =>
        /\ pq_exit \in {"SUCCESS", "FALLBACK", "PROPAGATED_ERROR"}
        /\ pq_exit \in {"SUCCESS", "FALLBACK"} => pq_result # None

(* C3: when process_question raises for an example, the original example takes
   that example's position in the results, every example processed so far has
   exactly one result (the loop went on), and once the invocation finishes the
   final file holds the results. *)
C3_BatchContinuesAfterFailure ==
    /\ \A k \in propagated :
            /\ k <= Len(RunResults)
            /\ RunResults[k] = DataToProcess[k]
    /\ pc = "example_for" => Len(RunResults) = i + j
    /\ pc = "finished" =>
            /\ finalFile = <<processed_data>>
            /\ Len(RunResults) = Len(DataToProcess)

\* C3's case: an example failed, the next one was processed, and the run finished
C3_Witness ==
    /\ pc = "finished"
    /\ \E k \in propagated :
            /\ k < Len(DataToProcess)
            /\ RunResults[k + 1] # DataToProcess[k + 1]
            /\ RunResults[k + 1].input = DataToProcess[k + 1].input

(* C4: a call issued after a transport failure on attempt a was preceded by a
   wait of 2^a time units; a call issued after a parse failure was preceded by
   no wait; a transport failure on the last allowed attempt raises without
   waiting. *)
C4_ExponentialBackoff ==
    /\ (pc = "pq_create" /\ attempt >= 1 /\ lastOutcome = "transport") =>
            lastGap = TicksPerUnit * Pow2(attempt - 1)
    /\ (pc = "pq_for" /\ lastOutcome = "transport") =>
            sinceCall = TicksPerUnit * Pow2(attempt - 1)
    /\ (pc \in {"pq_for", "pq_create"} /\ attempt >= 1 /\ lastOutcome = "parse") =>
            (IF pc = "pq_create" THEN lastGap ELSE sinceCall) = 0
    /\ (pc = "pq_end" /\ pq_exit = "PROPAGATED_ERROR") =>
            /\ attempt = max_retries - 1
            /\ sinceCall = 0

\* C4's case: the third call of a question goes out after transport failures
C4_Witness ==
    /\ pc = "pq_create"
    /\ attempt = 2
    /\ lastOutcome = "transport"
    /\ lastGap = 4

\* the intermediate artifact of this invocation holds the accumulated results
CheckpointIsCurrent ==
    /\ <<start_index, end_index>> \in DOMAIN tempFiles
    /\ tempFiles[<<start_index, end_index>>] = processed_data

(* C5: after every completed batch the accumulated results are in the
   intermediate artifact <output_file>.temp_<start>_<end>. *)
C5_CheckpointAfterEveryBatch ==
    (pc = "batch_for" /\ i > 0) => CheckpointIsCurrent

\* examples processed by this invocation before and after the batch that just ended
ProcessedBefore == i - batch_size
ProcessedAfter == Min(i, Len(DataToProcess))

(* C6: whenever the number of examples processed reaches or crosses a multiple
   of 50 at the end of a batch, the intermediate artifact is written before the
   next batch starts. *)
C6_CheckpointAtEveryPeriod ==
    (/\ pc = "batch_for"
     /\ i > 0
     /\ ProcessedAfter \div CheckpointPeriod > ProcessedBefore \div CheckpointPeriod)
        => CheckpointIsCurrent

(* C7: between any two consecutive completion calls made during
   process_training_data at least the inter-call delay elapses. *)
C7_DelayBetweenCalls ==
    (pc = "pq_create" /\ caller = "batch" /\ lastGap # -1) => lastGap >= InterCallDelay

(* C8, as stated: a record returned in the SUCCESS state has an output with both
   intent and discovery_results. *)
C8_SuccessHasShape ==
    (pc = "pq_end" /\ pq_exit = "SUCCESS") => HasShape(pq_result.output)

(* C8, amended: a record returned in the SUCCESS state has as its output
   whatever value the response decoded to as JSON, with the question as its
   input; only a response that is not syntactically valid JSON is a parse
   failure. *)
C8_SuccessIsDecodedResponse ==
    /\ (pc = "pq_end" /\ pq_exit = "SUCCESS") =>
            /\ IsJson(content)
            /\ pq_result = [input |-> question, output |-> JsonLoads(content)]
    /\ (InProcessQuestion /\ lastOutcome = "parse") => ~IsJson(content)
    /\ (InProcessQuestion /\ lastOutcome = "ok") => pq_exit = "SUCCESS"

\* C8's case: a valid JSON object without discovery_results came back as a success
C8_Witness ==
    /\ pc = "pq_end"
    /\ pq_exit = "SUCCESS"
    /\ ~HasShape(pq_result.output)

----------------------------------------------------------------------------
(* Properties of the schema normaliser *)

(* C9: after convert_output_to_bi returns, the caller's record, with every
   nested step, measure, dimension and unmatched intent, has the field values
   it had before the call, and the returned record is another object. *)
C9_InputNotMutated ==
    npc \in {"once", "twice"} =>
        /\ Value(heap, "output") = inputBefore
        /\ returned # "output"

\* the names and phrases a record holds
NamesIn(rec, l, field) ==
    IF "discovery_results" \notin DOMAIN rec THEN {}
    ELSE LET steps == rec["discovery_results"]
         IN  UNION {IF l \in DOMAIN steps[k]
                    THEN {steps[k][l][x][field] :
                            x \in {y \in 1..Len(steps[k][l]) : field \in DOMAIN steps[k][l][y]}}
                    ELSE {} : k \in 1..Len(steps)}

(* C10: applying convert_output_to_bi to what it returned gives a record equal
   to the one returned the first time, and every measure name, dimension name
   and phrase of a returned record is a fixed point of its mapping. *)
C10_Idempotent ==
    /\ npc = "twice" => Value(heap, returned) = resultOnce
    /\ npc \in {"once", "twice"} =>
            /\ \A n \in NamesIn(Value(heap, returned), "measures", "name") :
                    ConvertMeasureName(n) = n
            /\ \A n \in NamesIn(Value(heap, returned), "dimensions", "name") :
                    ConvertDimensionName(n) = n
            /\ \A ph \in NamesIn(Value(heap, returned), "unmatched_intents", "phrase") :
                    ConvertPhrase(ph) = ph

\* C10's case: the first call rewrote a measure, a dimension or a phrase, and the
\* result went through the normaliser again
C10_Witness ==
    /\ npc = "twice"
    /\ resultOnce # inputBefore
    /\ "publishers" \in NamesIn(resultOnce, "unmatched_intents", "phrase")

\* the names the closed mappings of the normaliser recognise
MappedNames(l) ==
    CASE l = "measures" -> {"Count", "Average", "Max", "Min", "Sum"}
      [] l = "dimensions" -> {"Geographic", "Temporal", "Entity", "Categorical"}
      [] l = "unmatched_intents" ->
            {"departments", "employees", "customers", "students", "budget", "sales",
             "revenue", "companies", "schools", "organizations"}

\* the field of an entry that the mapping of list l rewrites
MappedField(l) == IF l = "unmatched_intents" THEN "phrase" ELSE "name"

\* step k of the two records has the same keys, lists of the same lengths, and
\* everything outside the closed mappings equal
SameArityAt(before, after, k) ==
    LET b == before["discovery_results"][k]
        a == after["discovery_results"][k]
    IN  /\ DOMAIN a = DOMAIN b
        /\ \A key \in DOMAIN b :
              IF key \in Lists
              THEN /\ Len(a[key]) = Len(b[key])
                   /\ \A x \in 1..Len(b[key]) :
                         /\ DOMAIN a[key][x] = DOMAIN b[key][x]
                         /\ \A f \in DOMAIN b[key][x] :
                               (f # MappedField(key) \/ b[key][x][f] \notin MappedNames(key))
                                    => a[key][x][f] = b[key][x][f]
              ELSE a[key] = b[key]

(* C11: the record convert_output_to_bi returns has as many discovery results
   as the record it was given, each step has the same keys with measures,
   dimensions, segments, breakdowns and unmatched intents of unchanged length,
   and every name or phrase outside the closed mappings, like every other
   field, is passed through unchanged. *)
C11_ArityPreserved ==
    npc \in {"once", "twice"} =>
        LET after == Value(heap, returned)
        IN  /\ DOMAIN after = DOMAIN inputBefore
            /\ after.intent = inputBefore.intent
            /\ "discovery_results" \in DOMAIN inputBefore =>
                  /\ Len(after["discovery_results"]) = Len(inputBefore["discovery_results"])
                  /\ \A k \in 1..Len(inputBefore["discovery_results"]) :
                        SameArityAt(inputBefore, after, k)

\* C11's case: a record of two steps, holding an entry without a name and a name
\* the mapping rewrites, went through the normaliser
C11_Witness ==
    /\ npc = "once"
    /\ "discovery_results" \in DOMAIN inputBefore
    /\ Len(inputBefore["discovery_results"]) = 2
    /\ resultOnce # inputBefore
    /\ \E k \in 1..2 :
          /\ "measures" \in DOMAIN inputBefore["discovery_results"][k]
          /\ \E x \in 1..Len(inputBefore["discovery_results"][k]["measures"]) :
                "name" \notin DOMAIN inputBefore["discovery_results"][k]["measures"][x]

----------------------------------------------------------------------------
(* Properties of the vocabulary mapper *)

\* each word of the model's questions with every generic term in it replaced by
\* the term's first-ranked equivalent, earlier entries of the table first:
\* departments -> publishers, games -> campaigns (before game -> event),
\* ships -> campaigns (before scholarship -> premium), enrollment -> engagement
FirstRankedWord ==
    (<<"d", "e", "p", "a", "r", "t", "m", "e", "n", "t", "s">>
        :> <<"p", "u", "b", "l", "i", "s", "h", "e", "r", "s">>) @@
    (<<"D", "e", "p", "a", "r", "t", "m", "e", "n", "t", "s">>
        :> <<"p", "u", "b", "l", "i", "s", "h", "e", "r", "s">>) @@
    (<<"g", "a", "m", "e", "s">>
        :> <<"c", "a", "m", "p", "a", "i", "g", "n", "s">>) @@
    (<<"s", "i", "n", "g", "e", "r", "s">>
        :> <<"s", "i", "n", "g", "e", "r", "s">>) @@
    (<<"s", "c", "h", "o", "l", "a", "r", "s", "h", "i", "p", "s">>
        :> <<"s", "c", "h", "o", "l", "a", "r", "c", "a", "m", "p", "a", "i", "g", "n", "s">>) @@
    (<<"e", "n", "r", "o", "l", "l", "m", "e", "n", "t">>
        :> <<"e", "n", "g", "a", "g", "e", "m", "e", "n", "t">>)

\* each question of the model with the same done to each of its words
FirstRankedPairs ==
    {<<o \o JoinWords(ws) \o AreThere,
       o \o JoinWords([k \in DOMAIN ws |-> FirstRankedWord[ws[k]]]) \o AreThere>> :
        o \in Openers, ws \in UNION {[1..m -> QuestionWords] : m \in 1..MaxWords}}

\* "Departments", "games", "users"
DepartmentsCapital == <<"D", "e", "p", "a", "r", "t", "m", "e", "n", "t", "s">>
GamesText == <<"g", "a", "m", "e", "s">>
UsersText == <<"u", "s", "e", "r", "s">>

(* C14: convert_question_to_bi returns a text in which no generic term of the
   question is left in any letter case (for every term whose equivalent does
   not itself contain the term); the text after the loop over the table is the
   question with each word rewritten by the first-ranked equivalents, the
   table's earlier entries first; and "How many departments are there?" comes
   back as "How many publishers are there?". *)
C14_EveryOccurrenceReplaced ==
    /\ mpc \in {"mapped", "returned"} =>
            <<raw_question, converted_question>> \in FirstRankedPairs
    /\ mpc = "returned" =>
            /\ \A n \in DOMAIN BI_ENTITY_MAPPINGS :
                  LET generic_term == BI_ENTITY_MAPPINGS[n].generic_term
                      first_ranked == BI_ENTITY_MAPPINGS[n].bi_terms[1]
                  IN  (/\ Contains(Lower(raw_question), generic_term)
                       /\ ~Contains(first_ranked, generic_term))
                        => ~Contains(Lower(bi_question), generic_term)
            /\ raw_question = HowManyDepartments => bi_question = HowManyPublishers

\* C14's case: a question with a capitalised generic term and a second generic
\* term was rewritten
C14_Witness ==
    /\ mpc = "returned"
    /\ Contains(raw_question, DepartmentsCapital)
    /\ Contains(raw_question, GamesText)
    /\ bi_question # raw_question

\* one of the openers of the second pass is in the text, in any letter case
HasOpener(s) ==
    \/ Contains(Lower(s), HowManyLower)
    \/ Contains(Lower(s), ListLower)
    \/ Contains(Lower(s), WhatAreLower)

(* C15: when the text after the substitutions holds no domain term and holds
   one of the openers "how many", "list", "what are" in any letter case, the
   returned text differs from it, and a "how many" question has gained the
   default entity "users". *)
C15_SecondPassInjects ==
    (mpc = "returned" /\ ~HasBITerm(converted_question) /\ HasOpener(converted_question)) =>
        /\ bi_question # converted_question
        /\ Contains(Lower(converted_question), HowManyLower) =>
                Contains(Lower(bi_question), UsersText)

----------------------------------------------------------------------------
(* Properties of the corpus converter *)

\* "How many users singers are there?"
HowManyUsersSingers ==
    <<"H", "o", "w", " ", "m", "a", "n", "y", " ", "u", "s", "e", "r", "s", " ", "s", "i", "n", "g", "e", "r", "s", " ", "a", "r", "e", " ", "t", "h", "e", "r", "e", "?">>

\* what each well-formed example of the model is converted to: the question
\* through the vocabulary mapper, the annotation through the schema normaliser
ConvertedCounted ==
    [input |-> HowManyPublishers,
     output |-> [intent |-> "intents_discovery",
                 discovery_results |->
                    StepsOf(1, <<[step |-> 1, list |-> "measures", item |-> [name |-> "Total"]],
                                 [step |-> 1, list |-> "unmatched_intents",
                                  item |-> [phrase |-> "users"]]>>, FALSE)]]
ConvertedBare ==
    [input |-> HowManyUsersSingers,
     output |-> [intent |-> "intents_discovery", discovery_results |-> <<>>]]
ConvertedOf(example) == IF example = CountedExample THEN ConvertedCounted ELSE ConvertedBare

(* C12: the converted list never has more examples than the corpus, its k-th
   example is the conversion of the corpus's k-th example and of nothing else,
   and what is written to bi_training_data.json is that list, as long as the
   corpus. *)
C12_PositionalCorrespondence ==
    /\ cpc # "unused" =>
            /\ Len(bi_training_data) <= Len(training_data)
            /\ \A k \in 1..Len(bi_training_data) :
                    bi_training_data[k] = ConvertedOf(training_data[k])
    /\ output_file # <<>> =>
            /\ output_file[1] = bi_training_data
            /\ Len(output_file[1]) = Len(training_data)

\* C12's case: a corpus of at least three examples of both kinds, in an order that
\* a reversal would change, was converted and saved
C12_Witness ==
    /\ cpc = "saved"
    /\ Len(training_data) >= 3
    /\ training_data[1] = CountedExample
    /\ training_data[2] = BareExample
    /\ training_data[3] = BareExample

(* C13: when converting an example fails, bi_training_data.json has not been
   opened for writing, and whenever it has been written every example of the
   corpus had been converted. *)
C13_NoPartialOutput ==
    /\ (cpc = "crashed" /\ cerror = KeyError) => output_file = <<>>
    /\ output_file # <<>> => Len(bi_training_data) = Len(training_data)

\* C13's case: the third example of a corpus failed after two were converted
C13_Witness ==
    /\ cpc = "crashed"
    /\ cerror = KeyError
    /\ Len(bi_training_data) = 2

----------------------------------------------------------------------------
(* Properties of the quality analyzer *)

\* the analysis has been made
Analyzed == apc \in {"analyzed", "reported", "done"}

\* the step ids an example's discovery steps reach
StepIdsOf(example) ==
    IF "discovery_results" \in DOMAIN example.output
    THEN {StepId(result) : result \in Range(example.output["discovery_results"])}
    ELSE {}

\* the example reaches step_1 and neither step_2 nor step_3
IsSimple(example) == StepIdsOf(example) \cap {"step_1", "step_2", "step_3"} = {"step_1"}

\* the example reaches step_2 or step_3
IsComplex(example) == StepIdsOf(example) \cap {"step_2", "step_3"} # {}

(* C16: simple_questions is the number of examples that reach step_1 only,
   complex_questions the number of examples that reach step_2 or step_3, and
   complexity_ratio the fraction of the examples that are complex. *)
C16_ComplexityCountsExamples ==
    Analyzed =>
        LET comp == analysis.complexity_distribution
        IN  /\ comp.simple_questions = CountIf(bi_data, IsSimple)
            /\ comp.complex_questions = CountIf(bi_data, IsComplex)
            /\ comp.complexity_ratio[1] * Len(bi_data)
                    = CountIf(bi_data, IsComplex) * comp.complexity_ratio[2]

(* C17: on a corpus of no examples the analyzer ends with an error before any
   analysis exists: no ratio is computed, no report is printed and no analysis
   file is written; and every ratio of an analysis that exists has a nonzero
   denominator. *)
C17_EmptyCorpusRejected ==
    /\ (bi_data = <<>> /\ apc \notin {"unused", "loaded"}) =>
            /\ apc = "crashed"
            /\ aerror # None
            /\ analysis = None
            /\ score = -1
            /\ analysis_file = <<>>
    /\ analysis # None =>
            /\ analysis.complexity_distribution.complexity_ratio[2] > 0
            /\ analysis.output_quality.validity_rate[2] > 0

\* C17's case: the analyzer was run on the empty corpus and has ended
C17_Witness ==
    /\ bi_data = <<>>
    /\ apc = "crashed"
    /\ aerror = ZeroDivisionError

\* the <<example, step, field>> positions at which an example with both top-level
\* fields lacks a required field of a step
MissingFields ==
    {m \in UNION {{<<p[1], p[2], RequiredFields[y]>> : y \in DOMAIN RequiredFields} :
                    p \in AllSteps(bi_data)} :
        /\ HasShape(bi_data[m[1]].output)
        /\ m[3] \notin DOMAIN bi_data[m[1]].output["discovery_results"][m[2]]}

(* C18: valid_outputs is the number of examples whose output has both intent
   and discovery_results, so it lies in 0..total_examples and validity_rate in
   [0,1]; every required field that a step of such an example lacks has exactly
   one issue string of its own, naming the example, the step and the field,
   and there are no other issue strings than these and one per example
   without a top-level field; two examples, one complete and one whose only
   step lacks dimensions, give valid_outputs = 2 and the one issue string. *)
C18_ValidOutputsAndIssues ==
    Analyzed =>
        LET quality == analysis.output_quality
        IN  /\ quality.valid_outputs = CountIf(bi_data, LAMBDA e : HasShape(e.output))
            /\ quality.valid_outputs \in 0..analysis.total_examples
            /\ quality.validity_rate = <<quality.valid_outputs, analysis.total_examples>>
            /\ \A m \in MissingFields :
                  Cardinality({x \in DOMAIN quality.output_issues :
                        quality.output_issues[x]
                            = [example |-> m[1] - 1, result |-> m[2] - 1, missing |-> m[3]]}) = 1
            /\ Len(quality.output_issues)
                    = Cardinality(MissingFields)
                        + CountIf(bi_data, LAMBDA e : ~HasShape(e.output))
            /\ bi_data = <<OneStepExample, NoDimensionsExample>> =>
                  /\ quality.valid_outputs = 2
                  /\ quality.output_issues
                        = <<[example |-> 1, result |-> 0, missing |-> "dimensions"]>>

\* C18's case: the analysis of the complete example and the one without dimensions
C18_Witness ==
    /\ Analyzed
    /\ bi_data = <<OneStepExample, NoDimensionsExample>>

\* the five contributions of the configuration table
TableVolume(n) ==
    IF n >= 7000 THEN 20 ELSE IF n >= 5000 THEN 15 ELSE IF n >= 3000 THEN 10 ELSE 0
TableComplexity(r) ==
    IF 3 * r[2] <= 10 * r[1] /\ 10 * r[1] <= 7 * r[2] THEN 20
    ELSE IF 2 * r[2] <= 10 * r[1] /\ 10 * r[1] <= 8 * r[2] THEN 15
    ELSE 10
TableCoverage(t) ==
    IF t >= 20 THEN 20 ELSE IF t >= 15 THEN 15 ELSE IF t >= 10 THEN 10 ELSE 0
TableValidity(r) ==
    IF 100 * r[1] >= 95 * r[2] THEN 20
    ELSE IF 100 * r[1] >= 90 * r[2] THEN 15
    ELSE IF 100 * r[1] >= 80 * r[2] THEN 10
    ELSE 0
TableIssues(c) ==
    IF c = 0 THEN 20 ELSE IF c <= 10 THEN 15 ELSE IF c <= 50 THEN 10 ELSE 5

(* C19: the quality score is the sum of the five contributions of the
   configuration table (volume, complexity ratio, vocabulary coverage,
   validity rate, issue count), it lies in 0..100, and a complexity ratio of
   exactly one half contributes 20. *)
C19_ScoreIsBucketSum ==
    apc \in {"reported", "done"} =>
        LET ratio == analysis.complexity_distribution.complexity_ratio
            others == TableVolume(analysis.total_examples)
                        + TableCoverage(analysis.bi_terms_coverage.total_bi_terms_used)
                        + TableValidity(analysis.output_quality.validity_rate)
                        + TableIssues(Len(analysis.issues))
        IN  /\ score = others + TableComplexity(ratio)
            /\ score \in 0..100
            /\ 2 * ratio[1] = ratio[2] => score - others = 20

\* C19's case: the report of four examples, two of them complex, on the edge of a
\* validity bucket
C19_Witness ==
    /\ apc = "reported"
    /\ analysis.total_examples = 4
    /\ analysis.complexity_distribution.complexity_ratio = <<2, 4>>
    /\ score >= 20

----------------------------------------------------------------------------
(* Properties of the prompt assembler *)

\* one piece of the template after a single literal substitution
SubstitutedPiece(piece) ==
    IF piece = QuestionPlaceholder THEN prompt_question
    ELSE IF piece = ModelFilesPlaceholder THEN context
    ELSE piece

\* the template with each recognised placeholder replaced by its text, all else verbatim
LiteralSubstitution == Concat([k \in 1..Len(template_parts) |-> SubstitutedPiece(template_parts[k])])

\* C20: the prompt build_prompt returns is the template with every recognised
\* placeholder replaced by its mapped text and everything else verbatim, so that the
\* question appears in the prompt exactly as given whatever it contains.
C20_LiteralSubstitution ==
    ppc = "built" => prompt = LiteralSubstitution

----------------------------------------------------------------------------
(* Properties of a whole run of the batch processor *)

\* the records are one per example of data[start_index:end_index], in order, each
\* with the question of its example
OneRecordPerExample(records) ==
    /\ Len(records) = Len(DataToProcess)
    /\ \A k \in 1..Len(records) :
            /\ "input" \in DOMAIN records[k]
            /\ records[k].input = DataToProcess[k].input

(* C21: when the first process_training_data of a fresh processor finishes,
   whatever the collaborator answered, the final file holds exactly one record
   per example of data[start_index:end_index], in the same order, and record k
   has the input of example start_index + k. *)
C21_OneRecordPerExampleInOrder ==
    (pc = "finished" /\ invocations = 1) =>
        /\ Len(finalFile) = 1
        /\ OneRecordPerExample(finalFile[1])

\* C21's case: a fresh processor finished a run of two batches in which one
\* question raised and the other was answered
C21_Witness ==
    /\ pc = "finished"
    /\ invocations = 1
    /\ batch_size = 1
    /\ Len(DataToProcess) = 2
    /\ propagated # {}
    /\ Len(finalFile) = 1
    /\ \E k \in 1..Len(finalFile[1]) : finalFile[1][k] # DataToProcess[k]

(* C22: in process_question a parse failure and a transport failure use up the
   same attempt counter (every call that failed, of either kind, advanced it by
   one), and on exhaustion the exit is decided by the last allowed attempt alone:
   FALLBACK exactly when attempt max_retries - 1 failed to parse, PROPAGATED_ERROR
   exactly when it raised, whatever the earlier attempts did. *)
C22_LastAttemptDecides ==
    /\ pc = "pq_for" => calls = attempt
    /\ pc = "pq_create" => calls = attempt + 1
    /\ (pc = "pq_end" /\ pq_exit = "FALLBACK") =>
            /\ lastOutcome = "parse"
            /\ attempt = max_retries - 1
            /\ calls = max_retries
    /\ (pc = "pq_end" /\ pq_exit = "PROPAGATED_ERROR") =>
            /\ lastOutcome = "transport"
            /\ attempt = max_retries - 1
            /\ calls = max_retries
    /\ (pc = "pq_end" /\ calls = max_retries /\ lastOutcome = "parse") =>
            pq_exit = "FALLBACK"
    /\ (pc = "pq_end" /\ calls = max_retries /\ lastOutcome = "transport") =>
            pq_exit = "PROPAGATED_ERROR"

\* C22's case: the last allowed attempt failed to parse after a wait, that is,
\* after an attempt that raised, and the exit is FALLBACK
C22_Witness ==
    /\ pc = "pq_end"
    /\ pq_exit = "FALLBACK"
    /\ calls >= 2
    /\ calls = max_retries
    /\ lastGap > 0

\* the records are results of the first examples of data[start_index:end_index],
\* in order, and of nothing else
OwnRangeOnly(records) ==
    /\ Len(records) <= Len(DataToProcess)
    /\ \A k \in 1..Len(records) :
            /\ "input" \in DOMAIN records[k]
            /\ records[k].input = DataToProcess[k].input

(* C23: however often process_training_data was invoked on the processor, the
   final file an invocation writes holds the results of its own range
   data[start_index:end_index] and nothing else, and so does the intermediate
   file of its range. *)
C23_FilesHoldOwnRangeOnly ==
    /\ pc = "finished" =>
            /\ Len(finalFile) = 1
            /\ OwnRangeOnly(finalFile[1])
            /\ Len(finalFile[1]) = Len(DataToProcess)
    /\ (pc # "idle" /\ <<start_index, end_index>> \in DOMAIN tempFiles) =>
            OwnRangeOnly(tempFiles[<<start_index, end_index>>])

----------------------------------------------------------------------------
(* Properties of a whole run of the corpus converter *)

\* an example with its question and its annotation
WellFormedExample(example) == {"input", "output"} \subseteq DOMAIN example

\* a non-empty corpus of well-formed examples
WellFormedCorpus ==
    /\ training_data # <<>>
    /\ \A k \in 1..Len(training_data) : WellFormedExample(training_data[k])

(* C24: on a well-formed non-empty corpus of any length the converter's main
   never raises, neither in the loop nor in the sample conversions after the
   file is written, and it ends with the whole converted corpus in the file. *)
C24_MainEndsNormally ==
    WellFormedCorpus =>
        /\ cerror = None
        /\ cpc # "crashed"
        /\ cpc = "done" => output_file = <<bi_training_data>>

====
